---- MODULE Spec2Model ----
(***************************************************************************)
(* Forest plot generator (src/app/page.tsx): CSV rows -> augmented rows    *)
(* (standard error, pooling weight) -> plot traces, table cells and the    *)
(* axis layout with its synthesized logarithmic ticks.                     *)
(*                                                                         *)
(* Numbers.  A JavaScript number is modelled as a decimal floating-point   *)
(* value <<m, e>> = m * 10^e with at most Prec significant digits, the     *)
(* IEEE-754 double exponent range (overflow to Infinity, underflow to 0)   *)
(* and the three special values NaN, +Infinity, -Infinity.  Every          *)
(* arithmetic operation rounds its exact result to Prec digits, as the     *)
(* double operations round to 53 bits.  The sign of zero is not kept.      *)
(* Math.log, Math.log10 and Math.pow(10, .) are tabulated to six decimals  *)
(* on the mantissas the modelled files use.                                *)
(*                                                                         *)
(* Behaviour.  The state is the component's useState values and the        *)
(* `augmented` memo; plotData, the table and the layout are functions of   *)
(* them.  An upload is one step: the drop handler and the `complete`       *)
(* callback of the parse it starts.  Spec has the operations on a readable *)
(* file; SpecSizes adds the diamond size slider and SpecFailure the parse  *)
(* that ends in the `error` callback.                                      *)
(***************************************************************************)
EXTENDS Integers, Sequences, FiniteSets, TLC

\* Significant decimal digits an operation keeps (a double keeps about 16).
Prec == 5

\* Largest and smallest decimal exponent of a double: 1.797e308, 4.94e-324.
DblMaxExp == 308
DblMinExp == -324

----------------------------------------------------------------------------
(* Integer helpers.  All intermediate integers stay below 2^31.            *)

P10(n) ==
  CASE n = 0 -> 1 [] n = 1 -> 10 [] n = 2 -> 100 [] n = 3 -> 1000
    [] n = 4 -> 10000 [] n = 5 -> 100000 [] n = 6 -> 1000000
    [] n = 7 -> 10000000 [] n = 8 -> 100000000 [] n = 9 -> 1000000000

Abs(n) == IF n < 0 THEN -n ELSE n

\* Number of decimal digits of n >= 0 (0 for n = 0).
NumDigits(n) ==
  IF n = 0 THEN 0
  ELSE IF n < 10 THEN 1 ELSE IF n < 100 THEN 2 ELSE IF n < 1000 THEN 3
  ELSE IF n < 10000 THEN 4 ELSE IF n < 100000 THEN 5
  ELSE IF n < 1000000 THEN 6 ELSE IF n < 10000000 THEN 7
  ELSE IF n < 100000000 THEN 8 ELSE IF n < 1000000000 THEN 9 ELSE 10

IntMax(a, b) == IF a >= b THEN a ELSE b

----------------------------------------------------------------------------
(* The number type.                                                        *)

NaN == <<0, 9999>>
PosInf == <<1, 9999>>
NegInf == <<-1, 9999>>
Zero == <<0, 0>>

IsNaN(a) == a = NaN
IsInf(a) == a = PosInf \/ a = NegInf
\* Number.isFinite(v) for a value that is a number.
NumberIsFinite(a) == a[2] # 9999

Sgn(a) == IF a[1] > 0 THEN 1 ELSE IF a[1] < 0 THEN -1 ELSE 0

RECURSIVE Strip(_, _)
\* Canonical form: no trailing zero in the mantissa, zero is <<0, 0>>.
Strip(m, e) ==
  IF m = 0 THEN Zero
  ELSE IF m % 10 = 0 THEN Strip(m \div 10, e + 1) ELSE <<m, e>>

\* The double nearest to s * m * 10^e (s the sign, m >= 0 the magnitude):
\* rounded to Prec digits, Infinity above the largest double, 0 below the
\* smallest.
Make(s, m, e) ==
  IF m = 0 THEN Zero
  ELSE
    LET d == NumDigits(m)
        k == IF d > Prec THEN d - Prec ELSE 0
        r == IF k = 0 THEN m ELSE (m + P10(k) \div 2) \div P10(k)
        top == e + k + NumDigits(r) - 1
        lead2 == IF NumDigits(r) >= 2 THEN r \div P10(NumDigits(r) - 2)
                 ELSE r * 10
    IN IF top > DblMaxExp \/ (top = DblMaxExp /\ lead2 >= 18)
         THEN (IF s > 0 THEN PosInf ELSE NegInf)
       ELSE IF top < DblMinExp \/ (top = DblMinExp /\ lead2 < 25)
         THEN Zero
       ELSE Strip(s * r, e + k)

\* A decimal literal of the source: m * 10^e.
Dec(m, e) == Make(IF m < 0 THEN -1 ELSE 1, Abs(m), e)
FromInt(n) == Dec(n, 0)

Neg(a) == IF IsNaN(a) THEN NaN ELSE <<-a[1], a[2]>>

\* The magnitude of a finite non-zero <<m, e>> brought to exponent t
\* (truncated when t > e).
Scale(m, e, t) ==
  IF e >= t THEN Abs(m) * P10(e - t)
  ELSE IF t - e > 9 THEN 0 ELSE Abs(m) \div P10(t - e)

\* The exact sign of a - b for finite a, b.
CmpFinite(a, b) ==
  IF a[1] = 0 \/ b[1] = 0 THEN
    (IF a[1] = 0 THEN -Sgn(b) ELSE Sgn(a))
  ELSE
    LET T == IntMax(a[2] + NumDigits(Abs(a[1])), b[2] + NumDigits(Abs(b[1])))
        t == T - 9
        x == Sgn(a) * Scale(a[1], a[2], t) - Sgn(b) * Scale(b[1], b[2], t)
    IN IF x > 0 THEN 1 ELSE IF x < 0 THEN -1 ELSE 0

\* a < b, a <= b, a > b, a >= b of JavaScript: false when either is NaN.
Cmp(a, b) ==
  IF IsInf(a) \/ IsInf(b) THEN
    (IF a = b THEN 0
     ELSE IF a = PosInf \/ b = NegInf THEN 1 ELSE -1)
  ELSE CmpFinite(a, b)
Lt(a, b) == ~IsNaN(a) /\ ~IsNaN(b) /\ Cmp(a, b) < 0
Le(a, b) == ~IsNaN(a) /\ ~IsNaN(b) /\ Cmp(a, b) <= 0
Gt(a, b) == Lt(b, a)
Ge(a, b) == Le(b, a)

\* a + b.
Add(a, b) ==
  IF IsNaN(a) \/ IsNaN(b) THEN NaN
  ELSE IF IsInf(a) THEN (IF IsInf(b) /\ a # b THEN NaN ELSE a)
  ELSE IF IsInf(b) THEN b
  ELSE IF a[1] = 0 THEN b
  ELSE IF b[1] = 0 THEN a
  ELSE
    LET T == IntMax(a[2] + NumDigits(Abs(a[1])), b[2] + NumDigits(Abs(b[1])))
        t == T - 9
        x == Sgn(a) * Scale(a[1], a[2], t) + Sgn(b) * Scale(b[1], b[2], t)
    IN Make(IF x < 0 THEN -1 ELSE 1, Abs(x), t)

\* a - b.
Sub(a, b) == Add(a, Neg(b))

\* a * b.
Mul(a, b) ==
  IF IsNaN(a) \/ IsNaN(b) THEN NaN
  ELSE IF IsInf(a) \/ IsInf(b) THEN
    (IF a[1] = 0 \/ b[1] = 0 THEN NaN
     ELSE IF Sgn(a) * Sgn(b) > 0 THEN PosInf ELSE NegInf)
  ELSE IF a[1] = 0 \/ b[1] = 0 THEN Zero
  ELSE
    LET x == Abs(a[1])
        y == Abs(b[1])
        s == Sgn(a) * Sgn(b)
    IN IF NumDigits(x) + NumDigits(y) <= 9
         THEN Make(s, x * y, a[2] + b[2])
       ELSE Make(s, x * (y \div 1000) + (x * (y % 1000)) \div 1000,
                 a[2] + b[2] + 3)

RECURSIVE DivDigits(_, _, _)
\* floor(r * 10^n / b) for 0 <= r < b.
DivDigits(r, b, n) ==
  IF n = 0 THEN 0
  ELSE ((r * 10) \div b) * P10(n - 1) + DivDigits((r * 10) % b, b, n - 1)

\* a / b.
Div(a, b) ==
  IF IsNaN(a) \/ IsNaN(b) THEN NaN
  ELSE IF IsInf(a) THEN
    (IF IsInf(b) THEN NaN
     ELSE IF Sgn(a) * (IF Sgn(b) < 0 THEN -1 ELSE 1) > 0 THEN PosInf
     ELSE NegInf)
  ELSE IF IsInf(b) THEN Zero
  ELSE IF b[1] = 0 THEN
    (IF a[1] = 0 THEN NaN ELSE IF a[1] > 0 THEN PosInf ELSE NegInf)
  ELSE IF a[1] = 0 THEN Zero
  ELSE
    LET x == Abs(a[1])
        y == Abs(b[1])
        q0 == x \div y
        n == 9 - NumDigits(q0)
    IN Make(Sgn(a) * Sgn(b), q0 * P10(n) + DivDigits(x % y, y, n),
            a[2] - b[2] - n)

\* Math.max(a, b), Math.min(a, b): NaN when either is NaN.
MathMax(a, b) ==
  IF IsNaN(a) \/ IsNaN(b) THEN NaN ELSE IF Cmp(a, b) >= 0 THEN a ELSE b
MathMin(a, b) ==
  IF IsNaN(a) \/ IsNaN(b) THEN NaN ELSE IF Cmp(a, b) <= 0 THEN a ELSE b

\* Math.floor(a), Math.ceil(a).
MathFloor(a) ==
  IF ~NumberIsFinite(a) \/ a[2] >= 0 THEN a
  ELSE IF -a[2] > 9 THEN (IF a[1] < 0 THEN FromInt(-1) ELSE Zero)
  ELSE FromInt(a[1] \div P10(-a[2]))
MathCeil(a) ==
  IF ~NumberIsFinite(a) \/ a[2] >= 0 THEN a
  ELSE IF -a[2] > 9 THEN (IF a[1] > 0 THEN FromInt(1) ELSE Zero)
  ELSE FromInt(a[1] \div P10(-a[2])
               + (IF a[1] % P10(-a[2]) = 0 THEN 0 ELSE 1))

\* The integer an integral number of small magnitude stands for.
ToInt(a) == a[1] * P10(a[2])

----------------------------------------------------------------------------
(* Library functions, correct to about 1e-6 on the values the data uses.   *)

\* ln(m) * 10^6 for the mantissas of the data values.
LnMicro(m) ==
  CASE m = 1 -> 0 [] m = 2 -> 693147 [] m = 3 -> 1098612
    [] m = 5 -> 1609438 [] m = 8 -> 2079442 [] m = 11 -> 2397895
    [] m = 12 -> 2484907 [] m = 15 -> 2708050 [] m = 26 -> 3258097
    [] m = 95 -> 4553877 [] m = 125 -> 4828314 [] m = 165 -> 5105945
    [] m = 96 -> 4564348 [] m = 98 -> 4584967
    [] m = 101 -> 4615121 [] m = 107 -> 4672829

\* log10(m) * 10^6 for the mantissas of the data values.
Log10Micro(m) ==
  CASE m = 1 -> 0 [] m = 2 -> 301030 [] m = 3 -> 477121
    [] m = 5 -> 698970 [] m = 8 -> 903090 [] m = 11 -> 1041393
    [] m = 12 -> 1079181 [] m = 15 -> 1176091 [] m = 26 -> 1414973
    [] m = 95 -> 1977724 [] m = 125 -> 2096910 [] m = 165 -> 2217484
    [] m = 96 -> 1982271 [] m = 98 -> 1991226
    [] m = 101 -> 2004321 [] m = 107 -> 2029384

\* 10^(d / 10^j) * 10^5, for j = 1..6 and the digit d = 0..9.
Pow10Tab ==
  << <<100000, 125893, 158489, 199526, 251189, 316228, 398107, 501187,
       630957, 794328>>,
     <<100000, 102329, 104713, 107152, 109648, 112202, 114815, 117490,
       120226, 123027>>,
     <<100000, 100231, 100462, 100693, 100925, 101158, 101391, 101625,
       101859, 102094>>,
     <<100000, 100023, 100046, 100069, 100092, 100115, 100138, 100161,
       100184, 100207>>,
     <<100000, 100002, 100005, 100007, 100009, 100012, 100014, 100016,
       100018, 100021>>,
     <<100000, 100000, 100000, 100001, 100001, 100001, 100001, 100002,
       100002, 100002>> >>

\* A micro-scaled integer x (x * 10^-6) as a number.
FromMicro(x) == Make(IF x < 0 THEN -1 ELSE 1, Abs(x), -6)

\* Math.log(a).
MathLog(a) ==
  IF IsNaN(a) \/ a[1] < 0 THEN NaN
  ELSE IF a = PosInf THEN PosInf
  ELSE IF a[1] = 0 THEN NegInf
  ELSE FromMicro(LnMicro(a[1]) + a[2] * 2302585)

\* Math.log10(a).
MathLog10(a) ==
  IF IsNaN(a) \/ a[1] < 0 THEN NaN
  ELSE IF a = PosInf THEN PosInf
  ELSE IF a[1] = 0 THEN NegInf
  ELSE FromMicro(Log10Micro(a[1]) + a[2] * 1000000)

\* Math.pow(10, y).
MathPow10(y) ==
  IF IsNaN(y) THEN NaN
  ELSE IF y = PosInf THEN PosInf
  ELSE IF y = NegInf THEN Zero
  ELSE IF y[1] # 0 /\ y[2] + NumDigits(Abs(y[1])) > 3
    THEN (IF y[1] > 0 THEN PosInf ELSE Zero)
  ELSE
    LET Y == Sgn(y) * Scale(y[1], y[2], -6)
        k == Y \div 1000000
        F == Y % 1000000
        f(j) == Dec(Pow10Tab[j][((F \div P10(6 - j)) % 10) + 1], -5)
        p == Mul(Mul(Mul(Mul(Mul(f(1), f(2)), f(3)), f(4)), f(5)), f(6))
    IN IF F = 0 THEN Make(1, 1, k) ELSE Make(1, p[1], p[2] + k)

\* n.toFixed(k) as a number: rounded half away from zero to k decimals
\* ("NaN" and "Infinity" stay what they are).
ToFixed(a, k) ==
  IF ~NumberIsFinite(a) \/ a[2] >= -k THEN a
  ELSE IF -a[2] - k > 9 THEN Zero
  ELSE Strip(Sgn(a) * ((Abs(a[1]) + P10(-a[2] - k) \div 2)
                       \div P10(-a[2] - k)), -k)

\* The digits of n, at least p of them.
RECURSIVE Digits(_, _)
Digits(n, p) ==
  IF p > 1 /\ n < P10(p - 1) THEN "0" \o Digits(n, p - 1) ELSE ToString(n)

\* String(a) for a number with at most p decimals, written with exactly p.
NumToString(a, p) ==
  IF IsNaN(a) THEN "NaN"
  ELSE IF a = PosInf THEN "Infinity"
  ELSE IF a = NegInf THEN "-Infinity"
  ELSE LET scaled == Abs(a[1]) * P10(a[2] + p)
           whole == ToString(scaled \div P10(p))
           text == IF p = 0 THEN whole
                   ELSE whole \o "." \o Digits(scaled % P10(p), p)
       IN IF a[1] < 0 THEN "-" \o text ELSE text

----------------------------------------------------------------------------
(* Values of the source language.                                          *)

\* null and undefined; a text cell "abc" is <<"abc">>, a number is <<m, e>>,
\* a boolean is Bool(b).
Null == <<>>
Undefined == <<"undefined">>
Bool(b) == <<"boolean", b, "">>
IsNullish(v) == v = Null \/ v = Undefined
IsNumber(v) == Len(v) = 2
IsText(v) == Len(v) = 1 /\ v # Undefined
IsBoolean(v) == Len(v) = 3

\* The lower-case form of a letter of a header.
LowerChar(c) ==
  CASE c = "A" -> "a" [] c = "B" -> "b" [] c = "C" -> "c" [] c = "D" -> "d"
    [] c = "E" -> "e" [] c = "F" -> "f" [] c = "G" -> "g" [] c = "H" -> "h"
    [] c = "I" -> "i" [] c = "J" -> "j" [] c = "K" -> "k" [] c = "L" -> "l"
    [] c = "M" -> "m" [] c = "N" -> "n" [] c = "O" -> "o" [] c = "P" -> "p"
    [] c = "Q" -> "q" [] c = "R" -> "r" [] c = "S" -> "s" [] c = "T" -> "t"
    [] c = "U" -> "u" [] c = "V" -> "v" [] c = "W" -> "w" [] c = "X" -> "x"
    [] c = "Y" -> "y" [] c = "Z" -> "z" [] OTHER -> c

RECURSIVE ToLowerCase(_)
\* h.toLowerCase().
ToLowerCase(h) ==
  IF h = "" THEN ""
  ELSE LowerChar(SubSeq(h, 1, 1)) \o ToLowerCase(SubSeq(h, 2, Len(h)))

\* A lookup that takes a column whose header matches k in any case.
GetAnyCase(r, k) ==
  LET same == {h \in DOMAIN r : ToLowerCase(h) = ToLowerCase(k)}
  IN IF k \in DOMAIN r THEN r[k]
     ELSE IF same # {} THEN r[CHOOSE h \in same : TRUE]
     ELSE Undefined

\* r[k] of a parsed CSV record: undefined when the file has no such column.
Get(r, k) == IF k \in DOMAIN r THEN r[k] ELSE Undefined

RECURSIVE Coalesce(_, _, _)
\* r[keys[1]] ?? r[keys[2]] ?? ... ?? default.
Coalesce(r, keys, default) ==
  IF keys = <<>> THEN default
  ELSE IF ~IsNullish(Get(r, Head(keys))) THEN Get(r, Head(keys))
  ELSE Coalesce(r, Tail(keys), default)

\* Number(v) for a cell that is not nullish: true is 1 and false is 0; a
\* text cell is not a numeral.
ToNumber(v) ==
  IF IsNumber(v) THEN v
  ELSE IF IsBoolean(v) THEN (IF v[2] THEN FromInt(1) ELSE Zero)
  ELSE NaN

\* !study: the empty string, 0, NaN and false are falsy.
Falsy(v) ==
  \/ v = <<"">>
  \/ IsNullish(v)
  \/ IsNumber(v) /\ (v = Zero \/ v = NaN)
  \/ IsBoolean(v) /\ ~v[2]

----------------------------------------------------------------------------
(* The uploaded files.  A file is what the CSV reader hands to `complete`: *)
(* the sequence of its records, each a function from the header names to   *)
(* cells (a number, a boolean, a text, or null for a blank cell).          *)

\* Largest number of records in a file.
MaxRows == 2

Rec(study, effect, lo, hi, weight) ==
  [study |-> study, effect |-> effect, ci_low |-> lo, ci_high |-> hi,
   weight |-> weight]

\* The records the files are made of.
CsvRecords ==
  { \* complete rows, no weight
    Rec(<<"A">>, Dec(1, 0), Dec(95, -2), Dec(165, -2), Null),
    Rec(<<"B">>, Dec(2, 0), Dec(15, -1), Dec(26, -1), Null),
    Rec(<<"Wide">>, Dec(1, 0), Dec(1, -2), Dec(1, 3), Null),
    Rec(<<"Mid">>, Dec(2, 0), Dec(3, -1), Dec(12, 0), Null),
    \* explicit weight, with and without the other numbers
    Rec(<<"W">>, Dec(125, -2), Dec(95, -2), Dec(165, -2), Dec(125, -1)),
    Rec(<<"WOnly">>, Null, Null, Null, Dec(8, 0)),
    \* a subheader, and rows with some numbers missing, not numeric or (a
    \* cell such as 1e999) not finite
    Rec(<<"Subgroup">>, Null, Null, Null, Null),
    Rec(<<"NoLow">>, Dec(12, -1), Null, Dec(15, -1), Null),
    Rec(<<"Text">>, <<"n/a">>, Dec(8, -1), Dec(125, -2), PosInf),
    \* zero-width and inverted intervals, non-positive and tiny bounds
    Rec(<<"Point">>, Dec(15, -1), Dec(15, -1), Dec(15, -1), Null),
    Rec(<<"Inv">>, Dec(12, -1), Dec(15, -1), Dec(11, -1), Null),
    Rec(<<"Neg">>, Dec(-1, 0), Dec(-2, 0), Dec(-5, -1), Null),
    Rec(<<"Tiny">>, Zero, Zero, Dec(1, -160), Null),
    \* no study value
    Rec(<<"">>, Dec(1, 0), Dec(8, -1), Dec(125, -2), Null),
    \* cells the reader's dynamic typing hands over as a number or a boolean:
    \* the study "0", and the study "2020" with the effect "true"
    Rec(Zero, Dec(1, 0), Dec(8, -1), Dec(125, -2), Null),
    Rec(FromInt(2020), Bool(TRUE), Dec(8, -1), Dec(125, -2), Null) }

\* Longer files, of 7 to MaxLongRows records, repeating one pattern.
MaxLongRows == 8
LongNames == <<"Subgroup", "A", "B", "NoLow", "W", "Mid", "Point">>
LongPattern ==
  [k \in 1..Len(LongNames) |->
     CHOOSE r \in CsvRecords : r.study = <<LongNames[k]>>]
LongFiles ==
  { [i \in 1..n |-> LongPattern[((i - 1) % Len(LongPattern)) + 1]] :
      n \in 7..MaxLongRows }

Files == UNION { [1..n -> CsvRecords] : n \in 1..MaxRows } \cup LongFiles

\* The columns and the header spellings the README lists for each.
Aliases ==
  [study |-> <<"study", "Study", "name", "Name", "Studie">>,
   effect |-> <<"effect", "Effect", "or", "OR", "value", "ES">>,
   ci_low |-> <<"ci_low", "CI_low", "ciLower", "lower", "Lower",
                "Untere_KI", "untere_KI", "untere_ki">>,
   ci_high |-> <<"ci_high", "CI_high", "ciUpper", "upper", "Upper",
                 "Obere_KI", "obere_KI", "obere_ki">>,
   weight |-> <<"weight", "Weight">>]

\* Header spellings that differ from the listed ones in case only.
OtherCase ==
  [study |-> {"STUDY", "NAME", "studie"},
   effect |-> {"EFFECT", "Or", "Value", "es"},
   ci_low |-> {"Ci_Low", "CI_LOW", "LOWER", "cilower"},
   ci_high |-> {"Ci_High", "CI_HIGH", "UPPER", "ciupper"},
   weight |-> {"WEIGHT", "weighT"}]

\* A complete record with a weight, and second values for its cells.
HeaderBase ==
  Rec(<<"S">>, Dec(12, -1), Dec(8, -1), Dec(15, -1), Dec(8, 0))
HeaderSecond ==
  Rec(<<"T">>, Dec(2, 0), Dec(3, -1), Dec(26, -1), Dec(125, -1))

\* The record r with its column c under the header h instead.
Renamed(r, c, h) ==
  [k \in (DOMAIN r \ {c}) \cup {h} |-> IF k = h THEN r[c] ELSE r[k]]

\* The record r with one more column, headed h, holding v.
WithColumn(r, h, v) ==
  [k \in DOMAIN r \cup {h} |-> IF k = h THEN v ELSE r[k]]

\* One-record files for the header resolution: a column under each listed
\* spelling and under spellings of another case, and a column present
\* under two listed spellings, the first of them filled or blank.
HeaderFiles ==
  LET base == HeaderBase
      second == HeaderSecond
  IN UNION {
       { <<Renamed(base, c, h)>> :
           h \in {Aliases[c][i] : i \in 1..Len(Aliases[c])} \cup OtherCase[c] }
       \cup
       UNION { { <<WithColumn(Renamed(base, c, Aliases[c][i]),
                             Aliases[c][j], second[c])>>,
                 <<WithColumn(Renamed([base EXCEPT ![c] = Null], c,
                                      Aliases[c][i]),
                             Aliases[c][j], second[c])>> } :
                 i, j \in 1..Len(Aliases[c]) } :
       c \in DOMAIN Aliases }

\* Longest study label of the files that vary the labels.
MaxLabel == 80

RECURSIVE Label(_)
\* A study label of n characters.
Label(n) == IF n = 0 THEN "" ELSE "x" \o Label(n - 1)

\* Files of one or two rows whose labels are short, around the lengths at
\* which the margin's clamps set in (11, 12 and 73, 74), and long.
LabelFiles ==
  LET rec(n) == Rec(<<Label(n)>>, Dec(1, 0), Dec(95, -2), Dec(165, -2), Null)
      recs == {rec(n) : n \in {1, 11, 12, 43, 73, 74, MaxLabel}}
  IN UNION { [1..n -> recs] : n \in 1..2 }

\* Files of one or two rows whose ranges put ticks just below and just
\* above 1, on tenths, hundredths and thousandths, and on whole numbers.
TickFiles ==
  LET recs == { Rec(<<"Below1">>, Dec(97, -2), Dec(96, -2), Dec(98, -2), Null),
                Rec(<<"Above1">>, Dec(104, -2), Dec(101, -2), Dec(107, -2),
                    Null),
                Rec(<<"Halves">>, Dec(15, -1), Dec(15, -1), Dec(15, -1), Null),
                Rec(<<"Units">>, Dec(2, 0), Dec(1, 0), Dec(3, 0), Null),
                Rec(<<"Tenths">>, Dec(3, -1), Dec(2, -1), Dec(5, -1), Null),
                Rec(<<"Hundredths">>, Dec(3, -2), Dec(2, -2), Dec(5, -2),
                    Null),
                Rec(<<"Thousandths">>, Dec(3, -3), Dec(2, -3), Dec(5, -3),
                    Null) }
  IN UNION { [1..n -> recs] : n \in 1..2 }

----------------------------------------------------------------------------
(* parseCSV: the `complete` callback's mapping of the records to rows.     *)

\* tryNum(v).
tryNum(v) ==
  IF v = Null \/ v = Undefined \/ v = <<"">> THEN Null
  ELSE IF NumberIsFinite(ToNumber(v)) THEN ToNumber(v) ELSE Null

\* String(study).
StringOf(v) ==
  IF IsText(v) THEN v[1]
  ELSE IF IsBoolean(v) THEN (IF v[2] THEN "true" ELSE "false")
  ELSE NumToString(v, IF NumberIsFinite(v) /\ v[2] < 0 THEN -v[2] ELSE 0)

\* The row of one record, or null when the record has no study.
parseRecord(r) ==
  LET study == Coalesce(r, <<"study", "Study", "name", "Name", "Studie">>,
                        <<"">>)
      effect == tryNum(Coalesce(r, <<"effect", "Effect", "or", "OR", "value",
                                     "ES">>, Null))
      ci_low == tryNum(Coalesce(r, <<"ci_low", "CI_low", "ciLower", "lower",
                                     "Lower", "Untere_KI", "untere_KI",
                                     "untere_ki">>, Null))
      ci_high == tryNum(Coalesce(r, <<"ci_high", "CI_high", "ciUpper",
                                      "upper", "Upper", "Obere_KI",
                                      "obere_KI", "obere_ki">>, Null))
      weight == tryNum(Coalesce(r, <<"weight", "Weight">>, Null))
  IN IF Falsy(study) THEN Null
     ELSE [study |-> StringOf(study), effect |-> effect, ci_low |-> ci_low,
           ci_high |-> ci_high,
           weight |-> IF weight # Null THEN weight ELSE Undefined]

\* results.data.map(...).filter(Boolean).
parsed(file) ==
  LET mapped == [i \in 1..Len(file) |-> parseRecord(file[i])]
      Kept(x) == x # Null
  IN SelectSeq(mapped, Kept)

----------------------------------------------------------------------------
(* The component's state.                                                  *)

VARIABLES
  file,           \* the CSV file the user uploads in this session
  rows,           \* useState<Row[]>: the parsed rows
  isRatio,        \* useState: treat effects as ratios
  mirrorX,        \* useState: mirror the x axis
  uploadedFiles,  \* useState<File[] | undefined>: <<f>>, <<>> for undefined
  diamondScale,   \* useState<number>: the diamond size multiplier
  augmented,      \* useMemo [rows, isRatio]: the augmented rows
  logged,         \* the number of console.error calls so far
  pending,        \* the files whose parse has started and not yet ended
  xLabel,         \* useState: the x-axis label
  picker          \* the diamond colour and the state of its ColorPicker

\* The page's state without the colour picker.
pageVars ==
  <<file, rows, isRatio, mirrorX, uploadedFiles, diamondScale, augmented,
    logged, pending, xLabel>>

vars == <<pageVars, picker>>

----------------------------------------------------------------------------
(* The row augmenter.                                                      *)

\* A row with the three computed fields added ({ ...r, se, weightCalc,
\* hasWeight }).
Augmented(r, s, w, h) ==
  [study |-> r.study, effect |-> r.effect, ci_low |-> r.ci_low,
   ci_high |-> r.ci_high, weight |-> r.weight, se |-> s, weightCalc |-> w,
   hasWeight |-> h]

\* The lower and upper bound the standard error is computed from.
low(r, ratio) == IF ratio THEN MathMax(Dec(1, -12), r.ci_low) ELSE r.ci_low
high(r, ratio) == IF ratio THEN MathMax(Dec(1, -12), r.ci_high) ELSE r.ci_high

\* A standard error taken from the half width of the interval (divisor
\* 1.96) instead of its full width.
seHalfWidth(r, ratio) ==
  IF ratio
    THEN Div(Sub(MathLog(high(r, ratio)), MathLog(low(r, ratio))),
             Dec(196, -2))
  ELSE Div(Sub(high(r, ratio), low(r, ratio)), Dec(196, -2))

\* The standard error implied by the 95% interval.
se(r, ratio) ==
  IF ratio
    THEN Div(Sub(MathLog(high(r, ratio)), MathLog(low(r, ratio))),
             Mul(FromInt(2), Dec(196, -2)))
  ELSE Div(Sub(high(r, ratio), low(r, ratio)), Mul(FromInt(2), Dec(196, -2)))

\* The inverse-variance weight of a standard error.
weightCalc(s) == IF Gt(s, Zero) THEN Div(FromInt(1), Mul(s, s)) ELSE Zero

\* An augmenter that computes the weight from the interval whenever the
\* interval is complete, and uses the supplied weight only otherwise.
AugmentRowIntervalFirst(r, ratio) ==
  IF ~(IsNullish(r.effect) \/ IsNullish(r.ci_low) \/ IsNullish(r.ci_high))
    THEN Augmented(r, se(r, ratio), weightCalc(se(r, ratio)), TRUE)
  ELSE IF ~IsNullish(r.weight) THEN Augmented(r, Null, r.weight, TRUE)
  ELSE Augmented(r, Null, Zero, FALSE)

\* An augmenter that only asks for the two bounds before it computes a
\* weight, whether or not the effect is there.
AugmentRowBoundsOnly(r, ratio) ==
  IF ~IsNullish(r.weight) THEN Augmented(r, Null, r.weight, TRUE)
  ELSE IF IsNullish(r.ci_low) \/ IsNullish(r.ci_high)
    THEN Augmented(r, Null, Zero, FALSE)
  ELSE Augmented(r, se(r, ratio), weightCalc(se(r, ratio)), TRUE)

\* An augmenter that reads a value outside its inputs: with the axis
\* mirrored it computes in the other mode.
AugmentRowHiddenState(r, ratio) ==
  LET mode == IF mirrorX THEN ~ratio ELSE ratio
  IN IF ~IsNullish(r.weight) THEN Augmented(r, Null, r.weight, TRUE)
     ELSE IF IsNullish(r.effect) \/ IsNullish(r.ci_low)
             \/ IsNullish(r.ci_high)
       THEN Augmented(r, Null, Zero, FALSE)
     ELSE Augmented(r, se(r, mode), weightCalc(se(r, mode)), TRUE)

\* The callback of rows.map: one row with its se, weightCalc and hasWeight.
AugmentRow(r, ratio) ==
  IF ~IsNullish(r.weight) THEN Augmented(r, Null, r.weight, TRUE)
  ELSE IF IsNullish(r.effect) \/ IsNullish(r.ci_low) \/ IsNullish(r.ci_high)
    THEN Augmented(r, Null, Zero, FALSE)
  ELSE Augmented(r, se(r, ratio), weightCalc(se(r, ratio)), TRUE)

\* An augmenter that leaves out the rows it computes no weight for.
AugmentDropping(rs, ratio) ==
  LET all == [i \in 1..Len(rs) |-> AugmentRow(rs[i], ratio)]
      Weighted(a) == a.hasWeight
  IN SelectSeq(all, Weighted)

\* rows.map(...): the value of the `augmented` memo for (rows, isRatio).
Augment(rs, ratio) == [i \in 1..Len(rs) |-> AugmentRow(rs[i], ratio)]

----------------------------------------------------------------------------
(* plotData and the table body: weights, percentages, cells.               *)

RECURSIVE SumFrom(_, _, _)
\* seq.reduce((a, b) => a + b, acc), from index i on.
SumFrom(seq, i, acc) ==
  IF i > Len(seq) THEN acc ELSE SumFrom(seq, i + 1, Add(acc, seq[i]))

RECURSIVE MaxFrom(_, _, _)
\* Math.max(...seq, acc), from index i on.
MaxFrom(seq, i, acc) ==
  IF i > Len(seq) THEN acc ELSE MaxFrom(seq, i + 1, MathMax(acc, seq[i]))

RECURSIVE MinFrom(_, _, _)
\* Math.min(...seq, acc), from index i on.
MinFrom(seq, i, acc) ==
  IF i > Len(seq) THEN acc ELSE MinFrom(seq, i + 1, MathMin(acc, seq[i]))

\* augmented.map((r) => r.weightCalc ?? 0).
weights(aug) ==
  [i \in 1..Len(aug) |->
     IF IsNullish(aug[i].weightCalc) THEN Zero ELSE aug[i].weightCalc]

\* weights.reduce((a, b) => a + b, 0).
totalWeight(aug) == SumFrom(weights(aug), 1, Zero)

\* Math.max(...weights, 0.000001).
maxW(aug) == MaxFrom(weights(aug), 1, Dec(1, -6))

maxMarkerSize == 28
minMarkerSize == 6

\* The marker sizes of the revisions without the size slider.
markerSizesUnscaled(aug, scale) ==
  LET w == weights(aug)
      m == maxW(aug)
  IN [i \in 1..Len(aug) |->
        Add(Mul(Div(w[i], m), FromInt(maxMarkerSize)),
            FromInt(minMarkerSize))]

\* weights.map((w) => ((w / maxW) * maxMarkerSize + minMarkerSize) *
\* diamondScale).
markerSizes(aug, scale) ==
  LET w == weights(aug)
      m == maxW(aug)
  IN [i \in 1..Len(aug) |->
        Mul(Add(Mul(Div(w[i], m), FromInt(maxMarkerSize)),
                FromInt(minMarkerSize)), scale)]

\* (weightCalc / totalWeight) * 100.
pct(aug, i) == Mul(Div(weights(aug)[i], totalWeight(aug)), FromInt(100))

\* The cells of table row i.  The empty string is <<>>; the effect cell is
\* the number, the CI cell the pair of bounds, the weight cell the
\* percentage with one decimal.
EffectCell(aug, i) ==
  IF ~IsNullish(aug[i].effect) THEN aug[i].effect ELSE <<>>
CICell(aug, i) ==
  IF ~IsNullish(aug[i].ci_low) /\ ~IsNullish(aug[i].ci_high)
    THEN <<aug[i].ci_low, aug[i].ci_high>>
  ELSE <<>>
\* A weight cell that shows a percentage for every row of a dataset with a
\* total weight, whether or not the row has a weight.
WeightCellEveryRow(aug, i) ==
  IF totalWeight(aug) = Zero THEN <<>> ELSE ToFixed(pct(aug, i), 1)

WeightCell(aug, i) ==
  IF totalWeight(aug) = Zero \/ ~aug[i].hasWeight THEN <<>>
  ELSE ToFixed(pct(aug, i), 1)

\* The "Weight: ...%" part of the marker's hover text, <<>> when left out.
weightText(aug, i) ==
  IF ~aug[i].hasWeight \/ totalWeight(aug) = Zero THEN <<>>
  ELSE ToFixed(IF totalWeight(aug) = Zero THEN Zero ELSE pct(aug, i), 1)

\* The y position of the row at index i (from 1) of n rows: the callbacks'
\* augmented.length - i for the 0-based index.
yPos(n, i) == FromInt(n - (i - 1))

RECURSIVE xLineUnseparated(_, _)
\* A CI trace that puts nothing in for a row without both bounds.
xLineUnseparated(aug, i) ==
  IF i > Len(aug) THEN <<>>
  ELSE (IF ~IsNullish(aug[i].ci_low) /\ ~IsNullish(aug[i].ci_high)
          THEN <<aug[i].ci_low, aug[i].ci_high, Null>>
        ELSE <<>>) \o xLineUnseparated(aug, i + 1)

RECURSIVE xLineFrom(_, _)
\* ciTrace.x: per row its two bounds and a null, or a null alone.
xLineFrom(aug, i) ==
  IF i > Len(aug) THEN <<>>
  ELSE (IF ~IsNullish(aug[i].ci_low) /\ ~IsNullish(aug[i].ci_high)
          THEN <<aug[i].ci_low, aug[i].ci_high, Null>>
        ELSE <<Null>>) \o xLineFrom(aug, i + 1)
xLine(aug) == xLineFrom(aug, 1)

RECURSIVE yLineFrom(_, _)
\* ciTrace.y: per row its y position twice and a null, or a null alone.
yLineFrom(aug, i) ==
  IF i > Len(aug) THEN <<>>
  ELSE (IF ~IsNullish(aug[i].ci_low) /\ ~IsNullish(aug[i].ci_high)
          THEN <<yPos(Len(aug), i), yPos(Len(aug), i), Null>>
        ELSE <<Null>>) \o yLineFrom(aug, i + 1)
yLine(aug) == yLineFrom(aug, 1)

\* A mirror switch that reverses the rows.
SetMirrorXReversingRows(v) ==
  /\ mirrorX' = v
  /\ augmented' = [i \in 1..Len(augmented) |->
                     augmented[Len(augmented) + 1 - i]]
  /\ UNCHANGED <<xLabel, picker>>
  /\ UNCHANGED <<file, rows, isRatio, uploadedFiles, diamondScale, logged,
                 pending>>

\* markerTrace.x: the effect, null where there is none.
markerX(aug) ==
  [i \in 1..Len(aug) |->
     IF ~IsNullish(aug[i].effect) THEN aug[i].effect ELSE Null]

\* Markers counted from the bottom: the first row at y = 1.
markerYFromBottom(aug) == [i \in 1..Len(aug) |-> FromInt(i)]

\* markerTrace.y.
markerY(aug) == [i \in 1..Len(aug) |-> yPos(Len(aug), i)]

----------------------------------------------------------------------------
(* layout: the tick synthesis of ratio mode.                               *)

RECURSIVE allXFrom(_, _)
\* augmented.flatMap(r => [r.ci_low, r.ci_high, r.effect].filter(finite)).
allXFrom(aug, i) ==
  IF i > Len(aug) THEN <<>>
  ELSE LET Numeric(v) == ~IsNullish(v) /\ NumberIsFinite(v)
       IN SelectSeq(<<aug[i].ci_low, aug[i].ci_high, aug[i].effect>>,
                    Numeric) \o allXFrom(aug, i + 1)
allX(aug) == allXFrom(aug, 1)

\* A minimum that defaults to 0 when there is no numeric value.
xMinDefaultZero(aug) ==
  IF Len(allX(aug)) > 0 THEN MinFrom(allX(aug), 1, PosInf) ELSE Zero

xMin(aug) ==
  IF Len(allX(aug)) > 0 THEN MinFrom(allX(aug), 1, PosInf) ELSE FromInt(1)
xMax(aug) ==
  IF Len(allX(aug)) > 0 THEN MaxFrom(allX(aug), 1, NegInf) ELSE FromInt(1)

decadeMin(aug) ==
  ToInt(MathFloor(MathLog10(MathMax(xMin(aug), Dec(1, -12)))))
decadeMax(aug) ==
  ToInt(MathCeil(MathLog10(MathMax(xMax(aug), Dec(1, -12)))))

mantissasFull == <<1, 2, 3, 4, 5, 6, 7, 8, 9>>
mantissasReduced == <<1, 2, 5>>
maxTicks == 12

\* The two nested loops pushing m * 10^d, then the filter to [lo, hi].
candidatesOf(mants, dmin, dmax, lo, hi) ==
  LET n == Len(mants)
      all == [k \in 1..((dmax - dmin + 1) * n) |->
                Mul(FromInt(mants[((k - 1) % n) + 1]),
                    MathPow10(FromInt(dmin + (k - 1) \div n)))]
      InRange(v) == Ge(v, lo) /\ Le(v, hi)
  IN SelectSeq(all, InRange)

RECURSIVE fallbackFrom(_, _, _, _)
\* for (i = 0; i <= steps; i++) push 10^(logMin + (i/steps)(logMax-logMin)).
fallbackFrom(i, steps, logMin, logMax) ==
  IF ~Le(FromInt(i), steps) THEN <<>>
  ELSE <<MathPow10(Add(logMin, Mul(Div(FromInt(i), steps),
                                   Sub(logMax, logMin))))>>
       \o fallbackFrom(i + 1, steps, logMin, logMax)

\* The candidates after the three generation steps.
candidates(aug) ==
  LET lo == xMin(aug)
      hi == xMax(aug)
      full == candidatesOf(mantissasFull, decadeMin(aug), decadeMax(aug),
                           lo, hi)
      chosen == IF Len(full) > maxTicks
                  THEN candidatesOf(mantissasReduced, decadeMin(aug),
                                    decadeMax(aug), lo, hi)
                ELSE full
  IN IF Len(chosen) = 0
       THEN fallbackFrom(0, MathMin(FromInt(6),
                                    MathMax(FromInt(2), MathCeil(Div(hi, lo)))),
                         MathLog10(lo), MathLog10(hi))
     ELSE chosen

\* Number.isInteger(v).
NumberIsInteger(v) == NumberIsFinite(v) /\ v[2] >= 0

\* The label of a tick: an integer as it is, another value from 1 on with
\* one decimal (none if that decimal is 0), a value below 1 with one decimal
\* from 0.1 on and two below, without the zero before the point.
fmtVal(v) ==
  IF Ge(v, FromInt(1))
    THEN IF NumberIsInteger(v) THEN NumToString(v, 0)
         ELSE LET f == ToFixed(v, 1)
              IN NumToString(f, IF NumberIsInteger(f) THEN 0 ELSE 1)
  ELSE LET prec == IF Ge(v, Dec(1, -1)) THEN 1 ELSE 2
           text == NumToString(ToFixed(v, prec), prec)
       IN IF SubSeq(text, 1, 2) = "0." THEN SubSeq(text, 2, Len(text))
          ELSE text

\* A reversal that leaves the sequence as it is.
ReverseNothing(seq) == seq

\* [...seq].reverse().
Reverse(seq) == [i \in 1..Len(seq) |-> seq[Len(seq) + 1 - i]]

\* The tick override of the layout: tickvals and ticktext, both Undefined
\* when there is none (no rows, or linear mode).
xaxisTicks(aug, ratio, mirror) ==
  IF Len(aug) = 0 \/ ~ratio
    THEN [tickvals |-> Undefined, ticktext |-> Undefined]
  ELSE LET vals == candidates(aug)
           text == [k \in 1..Len(vals) |-> fmtVal(vals[k])]
       IN IF mirror
            THEN [tickvals |-> Reverse(vals), ticktext |-> Reverse(text)]
          ELSE [tickvals |-> vals, ticktext |-> text]

\* layout.xaxis.tickvals and layout.xaxis.ticktext.
tickvals(aug, ratio, mirror) == xaxisTicks(aug, ratio, mirror).tickvals
ticktext(aug, ratio, mirror) == xaxisTicks(aug, ratio, mirror).ticktext

\* augmented.reduce((m, r) => Math.max(m, (r.study || "").length), 0).
maxLabelLen(aug) ==
  MaxFrom([i \in 1..Len(aug) |-> FromInt(Len(aug[i].study))], 1, Zero)

\* A label width without the clamps.
estimatedLabelPxUnclamped(aug) ==
  Add(FromInt(12), Mul(maxLabelLen(aug), FromInt(8)))

\* Math.min(600, Math.max(100, 12 + maxLabelLen * 8)).
estimatedLabelPx(aug) ==
  MathMin(FromInt(600),
          MathMax(FromInt(100),
                  Add(FromInt(12), Mul(maxLabelLen(aug), FromInt(8)))))

\* layout.margin (Undefined for the empty layout).
margin(aug) ==
  IF Len(aug) = 0 THEN Undefined
  ELSE [l |-> estimatedLabelPx(aug), r |-> FromInt(40), t |-> FromInt(40),
        b |-> FromInt(60)]

\* layout: the vertical extent.
yMin == Zero
yMax(aug) == FromInt(Len(aug) + 1)
plotHeight(aug) ==
  MathMax(FromInt(400), Add(Mul(FromInt(Len(aug)), FromInt(40)),
                            FromInt(160)))

\* layout.yaxis: one tick per row at its y position, labelled by the study.
yaxisTickvals(aug) == [i \in 1..Len(aug) |-> yPos(Len(aug), i)]
yaxisTicktext(aug) == [i \in 1..Len(aug) |-> aug[i].study]
yaxisRange(aug) == <<yMin, yMax(aug)>>

\* Shapes whose line stands at 0 in either mode.
shapesAtZero(aug, ratio, mirror) ==
  IF Len(aug) = 0 THEN Undefined
  ELSE <<[type |-> "line", x0 |-> Zero, x1 |-> Zero, y0 |-> yMin,
          y1 |-> yMax(aug)]>>

\* layout.shapes: the reference line (Undefined for the empty layout).
shapes(aug, ratio, mirror) ==
  IF Len(aug) = 0 THEN Undefined
  ELSE <<[type |-> "line",
          x0 |-> IF ratio THEN FromInt(1) ELSE Zero,
          x1 |-> IF ratio THEN FromInt(1) ELSE Zero,
          y0 |-> yMin, y1 |-> yMax(aug)]>>

\* plotData: the CI trace and the marker trace of the rows, the markers in
\* the colour c.
plotData(aug, scale, c) ==
  << [x |-> xLine(aug), y |-> yLine(aug)],
     [x |-> markerX(aug), y |-> markerY(aug),
      size |-> markerSizes(aug, scale),
      color |-> <<c[1], c[2], c[3]>>, opacity |-> c[4]] >>

----------------------------------------------------------------------------
(* The colour picker (src/components/ui/color-picker.tsx) of the diamond   *)
(* colour.  A colour is <<r, g, b, a>>: what Color(value) reads from the   *)
(* string "rgba(r, g, b, a)".                                              *)

\* Math.round(a).
MathRound(a) == MathFloor(Add(a, Dec(5, -1)))

\* Math.abs(a - b) <= eps.
almostEqual(a, b, eps) == Le(Sub(a, b), eps) /\ Le(Sub(b, a), eps)

\* t3 brought back into [0, 1].
hslWrap(t) ==
  IF Lt(t, Zero) THEN Add(t, FromInt(1))
  ELSE IF Gt(t, FromInt(1)) THEN Sub(t, FromInt(1)) ELSE t

\* The channel at t3 between t1 and t2, times 255.
hslVal(t3, t1, t2) ==
  Mul(IF Lt(Mul(FromInt(6), t3), FromInt(1))
        THEN Add(t1, Mul(Mul(Sub(t2, t1), FromInt(6)), t3))
      ELSE IF Lt(Mul(FromInt(2), t3), FromInt(1)) THEN t2
      ELSE IF Lt(Mul(FromInt(3), t3), FromInt(2))
        THEN Add(t1, Mul(Mul(Sub(t2, t1),
                             Sub(Div(FromInt(2), FromInt(3)), t3)),
                         FromInt(6)))
      ELSE t1,
      FromInt(255))

\* The three channels for the hue H, the saturation S and the lightness L
\* as fractions, t2 as the conversion computes it from S and L.
hslChannels(H, S, L, t2) ==
  IF S = Zero
    THEN <<Mul(L, FromInt(255)), Mul(L, FromInt(255)), Mul(L, FromInt(255))>>
  ELSE [i \in 1..3 |->
          hslVal(hslWrap(Add(H, Mul(Div(FromInt(1), FromInt(3)),
                                    FromInt(2 - i)))),
                 Sub(Mul(FromInt(2), L), t2), t2)]

\* Color.hsl(h, s, l).rgb().array(): the channels before rounding.
hslToRgb(h, s, l) ==
  hslChannels(Div(h, FromInt(360)), Div(s, FromInt(100)),
              Div(l, FromInt(100)),
              IF Lt(Div(l, FromInt(100)), Dec(5, -1))
                THEN Mul(Div(l, FromInt(100)),
                         Add(FromInt(1), Div(s, FromInt(100))))
              ELSE Sub(Add(Div(l, FromInt(100)), Div(s, FromInt(100))),
                       Mul(Div(l, FromInt(100)), Div(s, FromInt(100)))))

\* The hue in degrees of the hue h in sixths of the circle.
hslHue(h) ==
  IF Lt(MathMin(Mul(h, FromInt(60)), FromInt(360)), Zero)
    THEN Add(MathMin(Mul(h, FromInt(60)), FromInt(360)), FromInt(360))
  ELSE MathMin(Mul(h, FromInt(60)), FromInt(360))

\* Hue, saturation and lightness of the channel fractions r, g, b with the
\* least and the greatest of them.
hslBetween(r, g, b, min, max) ==
  << IF max = min THEN Zero
     ELSE hslHue(IF r = max THEN Div(Sub(g, b), Sub(max, min))
                 ELSE IF g = max
                   THEN Add(FromInt(2), Div(Sub(b, r), Sub(max, min)))
                 ELSE Add(FromInt(4), Div(Sub(r, g), Sub(max, min)))),
     IF max = min THEN Zero
     ELSE IF Le(Div(Add(min, max), FromInt(2)), Dec(5, -1))
       THEN Mul(Div(Sub(max, min), Add(max, min)), FromInt(100))
     ELSE Mul(Div(Sub(max, min), Sub(Sub(FromInt(2), max), min)),
              FromInt(100)),
     Mul(Div(Add(min, max), FromInt(2)), FromInt(100)) >>

\* Color(value).hue(), .saturationl(), .lightness() of an rgb colour.
rgbToHsl(c) ==
  hslBetween(Div(c[1], FromInt(255)), Div(c[2], FromInt(255)),
             Div(c[3], FromInt(255)),
             MathMin(MathMin(Div(c[1], FromInt(255)),
                             Div(c[2], FromInt(255))),
                     Div(c[3], FromInt(255))),
             MathMax(MathMax(Div(c[1], FromInt(255)),
                             Div(c[2], FromInt(255))),
                     Div(c[3], FromInt(255))))

\* The colour the frame callback computes from the picker's state: the
\* rounded channels and Number(alpha.toFixed(3)).
computed(p) ==
  [i \in 1..4 |->
     IF i = 4 THEN ToFixed(Div(p.alpha, FromInt(100)), 3)
     ELSE MathRound(hslToRgb(p.hue, p.saturation, p.lightness)[i])]

\* The test of an incoming colour against a computed or emitted one: the
\* rounded channels equal and the alphas within 0.005.
sameNumeric(inc, c) ==
  /\ MathRound(inc[1]) = c[1]
  /\ MathRound(inc[2]) = c[2]
  /\ MathRound(inc[3]) = c[3]
  /\ almostEqual(ToFixed(inc[4], 3), c[4], Dec(5, -3))

\* useState("rgba(59,130,246,0.8)"): the page's diamond colour.
diamondColor == <<FromInt(59), FromInt(130), FromInt(246), Dec(8, -1)>>

\* The picker as it is mounted with the page's diamond colour: the
\* useState initialisers read hue, saturation and lightness from
\* Color(value) and the alpha as a percentage; the first effects request
\* the first frame.  `pointer` is where the pointer is held down, `calls`
\* the number of onChange calls since the user's last change.
PickerInit ==
  [ parent |-> diamondColor, value |-> diamondColor,
    hue |-> Dec(217219251, -6), saturation |-> Dec(912195122, -7),
    lightness |-> Dec(598039216, -7), alpha |-> FromInt(80),
    isInteracting |-> FALSE, isDragging |-> FALSE,
    emitRaf |-> TRUE, lastEmittedNumeric |-> Null,
    pointer |-> "none", calls |-> 0 ]

----------------------------------------------------------------------------
(* The component's operations.                                             *)

\* The page as first rendered, for each file the user may have at hand.
Init ==
  /\ file \in Files
  /\ rows = <<>>
  /\ isRatio = TRUE
  /\ mirrorX = FALSE
  /\ uploadedFiles = <<>>
  /\ diamondScale = FromInt(1)
  /\ xLabel = "Effect"
  /\ picker = PickerInit
  /\ augmented = <<>>
  /\ logged = 0
  /\ pending = {}

\* onDrop with the accepted file, and the `complete` callback of the parse
\* it starts, for a file the reader can read.
Upload ==
  /\ uploadedFiles' = <<file>>
  /\ rows' = parsed(file)
  /\ augmented' = Augment(rows', isRatio)
  /\ UNCHANGED <<xLabel, picker>>
  /\ UNCHANGED <<file, isRatio, mirrorX, diamondScale, logged, pending>>

\* The Remove button, shown while a file is selected.
Remove ==
  /\ Len(uploadedFiles) > 0
  /\ uploadedFiles' = <<>>
  /\ rows' = <<>>
  /\ augmented' = Augment(rows', isRatio)
  /\ UNCHANGED <<xLabel, picker>>
  /\ UNCHANGED <<file, isRatio, mirrorX, diamondScale, logged, pending>>

\* The "Treat effects as ratios" checkbox.
SetIsRatio(v) ==
  /\ isRatio' = v
  /\ augmented' = IF v # isRatio THEN Augment(rows, v) ELSE augmented
  /\ UNCHANGED <<xLabel, picker>>
  /\ UNCHANGED <<file, rows, mirrorX, uploadedFiles, diamondScale, logged,
               pending>>

\* The "Mirror x-axis" checkbox.
SetMirrorX(v) ==
  /\ mirrorX' = v
  /\ UNCHANGED <<xLabel, picker>>
  /\ UNCHANGED <<file, rows, isRatio, uploadedFiles, diamondScale, augmented,
               logged, pending>>

Next ==
  \/ Upload
  \/ Remove
  \/ \E v \in BOOLEAN : SetIsRatio(v)
  \/ \E v \in BOOLEAN : SetMirrorX(v)

\* The operations on a readable file with the size slider left alone.
Spec == Init /\ [][Next]_vars

\* The same operations on the files that vary the column headers.
InitHeaders ==
  /\ file \in HeaderFiles
  /\ rows = <<>>
  /\ isRatio = TRUE
  /\ mirrorX = FALSE
  /\ uploadedFiles = <<>>
  /\ diamondScale = FromInt(1)
  /\ xLabel = "Effect"
  /\ picker = PickerInit
  /\ augmented = <<>>
  /\ logged = 0
  /\ pending = {}

SpecHeaders == InitHeaders /\ [][Next]_vars

\* The same operations on the files that vary the study labels.
InitLabels ==
  /\ file \in LabelFiles
  /\ rows = <<>>
  /\ isRatio = TRUE
  /\ mirrorX = FALSE
  /\ uploadedFiles = <<>>
  /\ diamondScale = FromInt(1)
  /\ xLabel = "Effect"
  /\ picker = PickerInit
  /\ augmented = <<>>
  /\ logged = 0
  /\ pending = {}

SpecLabels == InitLabels /\ [][Next]_vars

\* The page with a file that varies the places of the ticks.
InitTicks ==
  /\ file \in TickFiles
  /\ rows = <<>>
  /\ isRatio = TRUE
  /\ mirrorX = FALSE
  /\ uploadedFiles = <<>>
  /\ diamondScale = FromInt(1)
  /\ xLabel = "Effect"
  /\ picker = PickerInit
  /\ augmented = <<>>
  /\ logged = 0
  /\ pending = {}

SpecTicks == InitTicks /\ [][Next]_vars

\* The "X-axis label" input, with some of the texts a user may type.
SetXLabel(v) ==
  /\ xLabel' = v
  /\ UNCHANGED picker
  /\ UNCHANGED <<file, rows, isRatio, mirrorX, uploadedFiles, diamondScale,
                 augmented, logged, pending>>

\* Files of one or two rows: complete rows, rows with an explicit weight
\* and rows with missing fields.
OptionFiles ==
  LET recs == { r \in CsvRecords :
                  r.study \in {<<"A">>, <<"W">>, <<"WOnly">>, <<"NoLow">>,
                               <<"Subgroup">>} }
  IN UNION { [1..n -> recs] : n \in 1..2 }

InitOptions ==
  /\ file \in OptionFiles
  /\ rows = <<>>
  /\ isRatio = TRUE
  /\ mirrorX = FALSE
  /\ uploadedFiles = <<>>
  /\ diamondScale = FromInt(1)
  /\ xLabel = "Effect"
  /\ picker = PickerInit
  /\ augmented = <<>>
  /\ logged = 0
  /\ pending = {}

NextOptions ==
  \/ Upload
  \/ Remove
  \/ \E v \in BOOLEAN : SetIsRatio(v)
  \/ \E v \in BOOLEAN : SetMirrorX(v)
  \/ \E v \in {"Effect", ""} : SetXLabel(v)

\* The operations with the option toggles and the x-axis label.
SpecOptions == InitOptions /\ [][NextOptions]_vars

----------------------------------------------------------------------------
(* The colour picker's operations.  A render and the effects it runs are   *)
(* one step; the animation frame the emit waits for is a step of its own,  *)
(* and so is the render in which the page hands the stored colour back.    *)

\* Most onChange calls counted after one change of the user.
MaxCalls == 3

\* The setters of the controlled-value effect for the incoming hue,
\* saturation, lightness and alpha percentage: each is called when the
\* incoming number is not within the tolerance of the picker's; a call
\* re-renders the picker and requests a frame.
syncTo(p, hsl, alphaPct) ==
  IF /\ almostEqual(p.hue, hsl[1], Dec(5, -1))
     /\ almostEqual(p.saturation, hsl[2], Dec(5, -1))
     /\ almostEqual(p.lightness, hsl[3], Dec(5, -1))
     /\ almostEqual(p.alpha, alphaPct, FromInt(1))
    THEN p
  ELSE [p EXCEPT
          !.hue = IF almostEqual(@, hsl[1], Dec(5, -1)) THEN @ ELSE hsl[1],
          !.saturation = IF almostEqual(@, hsl[2], Dec(5, -1))
                           THEN @ ELSE hsl[2],
          !.lightness = IF almostEqual(@, hsl[3], Dec(5, -1))
                          THEN @ ELSE hsl[3],
          !.alpha = IF almostEqual(@, alphaPct, FromInt(1))
                      THEN @ ELSE alphaPct,
          !.emitRaf = TRUE]

\* The controlled-value effect, run for the picker p after a render in
\* which value or isInteracting changed.
SyncEffect(p) ==
  IF p.isInteracting THEN p
  ELSE IF /\ p.lastEmittedNumeric # Null
          /\ sameNumeric(p.value, p.lastEmittedNumeric) THEN p
  ELSE syncTo(p, rgbToHsl(p.value),
              MathRound(Mul(p.value[4], FromInt(100))))

\* The requestAnimationFrame callback of scheduleEmit for the computed
\* colour out: it skips the emit when the controlled value or the last
\* emitted colour is numerically the computed one, and otherwise calls
\* onChange, whose handler stores the colour in the page's state.
emit(p, out) ==
  IF sameNumeric(p.value, out)
    THEN [p EXCEPT !.lastEmittedNumeric = out, !.emitRaf = FALSE]
  ELSE IF /\ p.lastEmittedNumeric # Null
          /\ sameNumeric(p.lastEmittedNumeric, out)
    THEN [p EXCEPT !.emitRaf = FALSE]
  ELSE [p EXCEPT !.lastEmittedNumeric = out,
                 !.parent = out,
                 !.calls = IF @ < MaxCalls THEN @ + 1 ELSE @,
                 !.emitRaf = FALSE]

\* An animation frame with an emit requested.
Frame ==
  /\ picker.emitRaf
  /\ picker' = emit(picker, computed(picker))
  /\ UNCHANGED pageVars

\* The page renders with a new diamond colour: the picker gets it as its
\* value, the controlled-value effect runs, and the emit effect (whose
\* scheduleEmit is a new function) requests a frame.
Render ==
  /\ picker.parent # picker.value
  /\ picker' = [SyncEffect([picker EXCEPT !.value = picker.parent])
                  EXCEPT !.emitRaf = TRUE]
  /\ UNCHANGED pageVars

\* The page renders for another reason: the handler it passes as onChange
\* is a new function, so the emit effect requests a frame.
ParentRenders ==
  /\ picker.parent = picker.value
  /\ picker' = [picker EXCEPT !.emitRaf = TRUE]
  /\ UNCHANGED pageVars

\* ColorPickerHue and ColorPickerAlpha: pointer down, a new slider value,
\* pointer up (which re-runs the controlled-value effect).
SliderDown(w) ==
  /\ picker.pointer = "none"
  /\ picker' = [picker EXCEPT !.pointer = w, !.isInteracting = TRUE]
  /\ UNCHANGED pageVars

SliderChange(w, v) ==
  /\ picker.pointer = w
  /\ picker[w] # v
  /\ picker' = [picker EXCEPT ![w] = v, !.emitRaf = TRUE, !.calls = 0]
  /\ UNCHANGED pageVars

SliderUp(w) ==
  /\ picker.pointer = w
  /\ picker' = IF picker.isInteracting
                 THEN SyncEffect([picker EXCEPT !.pointer = "none",
                                                !.isInteracting = FALSE])
               ELSE [picker EXCEPT !.pointer = "none"]
  /\ UNCHANGED pageVars

\* ColorPickerSelection: pointer down (its handlePointerMove call still sees
\* isDragging false and returns), a move to the position (x, y) of the
\* area, and the window's pointerup listener.
SelectionDown ==
  /\ picker.pointer = "none"
  /\ picker' = [picker EXCEPT !.pointer = "selection", !.isDragging = TRUE,
                              !.isInteracting = TRUE]
  /\ UNCHANGED pageVars

SelectionMove(x, y) ==
  /\ picker.pointer = "selection"
  /\ picker.isDragging
  /\ LET topLightness == IF Lt(x, Dec(1, -2)) THEN FromInt(100)
                         ELSE Add(FromInt(50),
                                  Mul(FromInt(50), Sub(FromInt(1), x)))
         moved == [picker EXCEPT
                     !.saturation = Mul(x, FromInt(100)),
                     !.lightness = Mul(topLightness, Sub(FromInt(1), y))]
     IN /\ moved # picker
        /\ picker' = [moved EXCEPT !.emitRaf = TRUE, !.calls = 0]
  /\ UNCHANGED pageVars

SelectionUp ==
  /\ picker.pointer = "selection"
  /\ picker' = [picker EXCEPT !.pointer = "none", !.isDragging = FALSE]
  /\ UNCHANGED pageVars

\* The slider values and the position of the selection area the user moves
\* to: finitely many changes, after which the user leaves the values alone.
HueValues == {FromInt(120)}
AlphaValues == {FromInt(50)}
Positions == {<<Dec(5, -1), Dec(5, -1)>>}

\* The page before a file is chosen, the popover of the diamond colour open.
InitPicker ==
  /\ file = <<>>
  /\ rows = <<>>
  /\ isRatio = TRUE
  /\ mirrorX = FALSE
  /\ uploadedFiles = <<>>
  /\ diamondScale = FromInt(1)
  /\ xLabel = "Effect"
  /\ picker = PickerInit
  /\ augmented = <<>>
  /\ logged = 0
  /\ pending = {}

NextPicker ==
  \/ Frame
  \/ Render
  \/ ParentRenders
  \/ \E w \in {"hue", "alpha"} : SliderDown(w)
  \/ \E v \in HueValues : SliderChange("hue", v)
  \/ \E v \in AlphaValues : SliderChange("alpha", v)
  \/ \E w \in {"hue", "alpha"} : SliderUp(w)
  \/ SelectionDown
  \/ \E pos \in Positions : SelectionMove(pos[1], pos[2])
  \/ SelectionUp

\* The picker used by a page that stores every emitted colour.
SpecPicker == InitPicker /\ [][NextPicker]_vars

\* An animation frame whose onChange call is followed at once by the page's
\* render with the stored colour.
FrameThenRender ==
  /\ picker.emitRaf
  /\ picker' = [q \in {emit(picker, computed(picker))} |->
                  IF q.parent # q.value
                    THEN [SyncEffect([q EXCEPT !.value = q.parent])
                            EXCEPT !.emitRaf = TRUE]
                  ELSE q][emit(picker, computed(picker))]
  /\ UNCHANGED pageVars

\* The picker after the frame its mounting requested.
InitAtRest ==
  /\ file = <<>>
  /\ rows = <<>>
  /\ isRatio = TRUE
  /\ mirrorX = FALSE
  /\ uploadedFiles = <<>>
  /\ diamondScale = FromInt(1)
  /\ xLabel = "Effect"
  /\ picker = [PickerInit EXCEPT !.emitRaf = FALSE,
                                 !.lastEmittedNumeric = diamondColor]
  /\ augmented = <<>>
  /\ logged = 0
  /\ pending = {}

NextPrompt ==
  \/ FrameThenRender
  \/ ParentRenders
  \/ \E w \in {"hue", "alpha"} : SliderDown(w)
  \/ \E v \in HueValues : SliderChange("hue", v)
  \/ \E v \in AlphaValues : SliderChange("alpha", v)
  \/ \E w \in {"hue", "alpha"} : SliderUp(w)
  \/ SelectionDown
  \/ \E pos \in Positions : SelectionMove(pos[1], pos[2])
  \/ SelectionUp

\* The same picker when no pointer event comes between an onChange call and
\* the render that hands the colour back.
SpecPrompt == InitAtRest /\ [][NextPrompt]_vars

\* The "Diamond size" slider (min 0.5, max 3, step 0.1), at some of its
\* positions.
SliderValues == {Dec(5, -1), FromInt(1), Dec(15, -1), FromInt(3)}

SetDiamondScale(v) ==
  /\ diamondScale' = v
  /\ UNCHANGED <<xLabel, picker>>
  /\ UNCHANGED <<file, rows, isRatio, mirrorX, uploadedFiles, augmented,
               logged, pending>>

\* The operations with the slider.  diamondScale is read by markerSizes
\* only and the slider writes nothing else, so the properties that do not
\* mention the marker sizes are checked without it, under Spec.
NextSizes ==
  \/ Next
  \/ \E v \in SliderValues : SetDiamondScale(v)

SpecSizes == Init /\ [][NextSizes]_vars

\* Largest number of failed parses in a session.
MaxLogged == 2

\* A failed parse that empties the rows.
UploadFailsClearingRows ==
  /\ logged < MaxLogged
  /\ uploadedFiles' = <<file>>
  /\ logged' = logged + 1
  /\ rows' = <<>>
  /\ augmented' = Augment(rows', isRatio)
  /\ UNCHANGED <<xLabel, picker>>
  /\ UNCHANGED <<file, isRatio, mirrorX, diamondScale, pending>>

\* onDrop with the accepted file, and the `error` callback of the parse it
\* starts, for a file the reader cannot read: the error is logged.
UploadFails ==
  /\ logged < MaxLogged
  /\ uploadedFiles' = <<file>>
  /\ logged' = logged + 1
  /\ UNCHANGED <<xLabel, picker>>
  /\ UNCHANGED <<file, rows, isRatio, mirrorX, diamondScale, augmented,
               pending>>

\* The operations with the parses that fail.
NextFailure ==
  \/ Next
  \/ UploadFails

SpecFailure == Init /\ [][NextFailure]_vars

\* A second file the user may drop: the record B alone.
OtherFile == <<LongPattern[3]>>

\* onDrop with an accepted file f: the file is selected and its parse
\* starts; the reader reads the file asynchronously.
Drop(f) ==
  /\ f \notin pending
  /\ uploadedFiles' = <<f>>
  /\ pending' = pending \cup {f}
  /\ UNCHANGED <<xLabel, picker>>
  /\ UNCHANGED <<file, rows, isRatio, mirrorX, diamondScale, augmented,
                 logged>>

\* The `complete` callback of the parse of f: setRows(parsed).
ParseComplete(f) ==
  /\ f \in pending
  /\ pending' = pending \ {f}
  /\ rows' = parsed(f)
  /\ augmented' = Augment(rows', isRatio)
  /\ UNCHANGED <<xLabel, picker>>
  /\ UNCHANGED <<file, isRatio, mirrorX, uploadedFiles, diamondScale,
                 logged>>

\* The operations with the parse as the two steps it is made of, so that
\* other events can come between the drop and the end of the parse.
NextAsync ==
  \/ \E f \in {file, OtherFile} : Drop(f)
  \/ \E f \in pending : ParseComplete(f)
  \/ Remove
  \/ \E v \in BOOLEAN : SetIsRatio(v)
  \/ \E v \in BOOLEAN : SetMirrorX(v)

SpecAsync == Init /\ [][NextAsync]_vars

----------------------------------------------------------------------------
(* Properties of the row augmenter.                                        *)

\* The row has its effect and both bounds.
Complete(r) ==
  ~IsNullish(r.effect) /\ ~IsNullish(r.ci_low) /\ ~IsNullish(r.ci_high)

\* |a - b| <= tol.
Near(a, b, tol) == Le(Sub(a, b), tol) /\ Le(Sub(b, a), tol)

\* C1: every row with a supplied weight is augmented with weightCalc equal
\* to that weight, se null and hasWeight true, in ratio and in linear mode,
\* whether or not its effect and bounds are present.
C1_ExplicitWeight ==
  \A i \in 1..Len(augmented) :
    ~IsNullish(rows[i].weight)
      => /\ augmented[i].weightCalc = rows[i].weight
         /\ augmented[i].se = Null
         /\ augmented[i].hasWeight = TRUE

\* Linear mode, one weighted row with a complete interval and one weighted
\* row with nothing else.
C1_Witness ==
  /\ ~isRatio
  /\ \E i, j \in 1..Len(augmented) :
       /\ ~IsNullish(rows[i].weight) /\ Complete(rows[i])
       /\ ~IsNullish(rows[j].weight) /\ IsNullish(rows[j].effect)
       /\ augmented[i].weightCalc = rows[i].weight
       /\ augmented[j].hasWeight

\* C2: every row without a supplied weight that misses its effect or one of
\* its bounds is augmented with hasWeight false, weightCalc 0 and se null,
\* in ratio and in linear mode.
C2_IncompleteRow ==
  \A i \in 1..Len(augmented) :
    (IsNullish(rows[i].weight) /\ ~Complete(rows[i]))
      => /\ augmented[i].hasWeight = FALSE
         /\ augmented[i].weightCalc = Zero
         /\ augmented[i].se = Null

\* A row that has both bounds but no effect, and a row that has its effect
\* but not its lower bound, both augmented without a weight.
C2_Witness ==
  \E i, j \in 1..Len(augmented) :
    /\ IsNullish(rows[i].weight) /\ IsNullish(rows[i].effect)
    /\ ~IsNullish(rows[i].ci_low) /\ ~IsNullish(rows[i].ci_high)
    /\ IsNullish(rows[j].weight) /\ ~IsNullish(rows[j].effect)
    /\ IsNullish(rows[j].ci_low)
    /\ ~augmented[i].hasWeight /\ ~augmented[j].hasWeight

\* C5: every complete row without a supplied weight gets hasWeight true and
\* a weightCalc that is finite and not negative, and that is 0 exactly when
\* the upper bound (clamped to 1e-12 in ratio mode) is not greater than the
\* lower bound; it is never Infinity or NaN.
C5_FiniteWeight ==
  \A i \in 1..Len(augmented) :
    (IsNullish(rows[i].weight) /\ Complete(rows[i]))
      => /\ augmented[i].hasWeight = TRUE
         /\ NumberIsFinite(augmented[i].weightCalc)
         /\ Ge(augmented[i].weightCalc, Zero)
         /\ (augmented[i].weightCalc = Zero)
              <=> Le(high(rows[i], isRatio), low(rows[i], isRatio))

\* What remains of C5 when the weight is allowed to overflow: hasWeight is
\* true, the weight is a number that is not negative, and an interval whose
\* upper bound is not greater than its lower bound gets the weight 0.
C5_ExceptOverflow ==
  \A i \in 1..Len(augmented) :
    (IsNullish(rows[i].weight) /\ Complete(rows[i]))
      => /\ augmented[i].hasWeight = TRUE
         /\ Ge(augmented[i].weightCalc, Zero)
         /\ Le(high(rows[i], isRatio), low(rows[i], isRatio))
              => augmented[i].weightCalc = Zero

\* The 95% interval's width on the scale of the mode: the bounds in linear
\* mode, the natural logarithms of the bounds, each raised to 1e-12 if
\* below it, in ratio mode.
Width(r, ratio) ==
  IF ratio
    THEN Sub(MathLog(MathMax(Dec(1, -12), r.ci_high)),
             MathLog(MathMax(Dec(1, -12), r.ci_low)))
  ELSE Sub(r.ci_high, r.ci_low)

\* The row of the worked example: effect 1, ci_low 0.95, ci_high 1.65.
IsExample(r) ==
  r.effect = FromInt(1) /\ r.ci_low = Dec(95, -2) /\ r.ci_high = Dec(165, -2)
  /\ IsNullish(r.weight)

\* C6 as stated: se is the width over 2 x 1.96 with the logarithms of the
\* bounds themselves in ratio mode, weightCalc is 1/se^2 when se > 0, and
\* the example row in ratio mode has se about 0.1411 and weight about 50.2
\* (to within one unit of the last digit given).
C6_AsStated ==
  \A i \in 1..Len(augmented) :
    (IsNullish(rows[i].weight) /\ Complete(rows[i]))
      => LET U == IF isRatio THEN MathLog(rows[i].ci_high)
                  ELSE rows[i].ci_high
             L == IF isRatio THEN MathLog(rows[i].ci_low) ELSE rows[i].ci_low
             s == Div(Sub(U, L), Dec(392, -2))
         IN /\ augmented[i].se = s
            /\ Gt(s, Zero)
                 => augmented[i].weightCalc = Div(FromInt(1), Mul(s, s))
            /\ (isRatio /\ IsExample(rows[i]))
                 => /\ Near(augmented[i].se, Dec(1411, -4), Dec(1, -4))
                    /\ Near(augmented[i].weightCalc, Dec(502, -1), Dec(1, -1))

\* C6, amended: se is the width over 3.92, where ratio mode takes the
\* logarithms of the bounds raised to 1e-12; weightCalc is 1/se^2 when
\* se > 0; the example row in ratio mode has se about 0.1408 and weight
\* about 50.4.
C6_StandardError ==
  \A i \in 1..Len(augmented) :
    (IsNullish(rows[i].weight) /\ Complete(rows[i]))
      => LET s == Div(Width(rows[i], isRatio), Dec(392, -2))
         IN /\ augmented[i].se = s
            /\ Gt(s, Zero)
                 => augmented[i].weightCalc = Div(FromInt(1), Mul(s, s))
            /\ (isRatio /\ IsExample(rows[i]))
                 => /\ Near(augmented[i].se, Dec(1408, -4), Dec(1, -4))
                    /\ Near(augmented[i].weightCalc, Dec(504, -1), Dec(1, -1))

\* The example row augmented in ratio mode, next to a row with a
\* non-positive bound.
C6_Witness ==
  /\ isRatio
  /\ \E i, j \in 1..Len(augmented) :
       /\ IsExample(rows[i])
       /\ Gt(augmented[i].se, Zero)
       /\ Gt(augmented[i].weightCalc, FromInt(50))
       /\ IsNullish(rows[j].weight) /\ Complete(rows[j])
       /\ Le(rows[j].ci_low, Zero)

\* C7: the augmenter yields, for every list of rows and either mode, one
\* augmented row per row, at the same index, with study, effect, ci_low,
\* ci_high and weight unchanged.
C7_OrderAndCount ==
  /\ Len(augmented) = Len(rows)
  /\ \A i \in 1..Len(rows) :
       /\ augmented[i].study = rows[i].study
       /\ augmented[i].effect = rows[i].effect
       /\ augmented[i].ci_low = rows[i].ci_low
       /\ augmented[i].ci_high = rows[i].ci_high
       /\ augmented[i].weight = rows[i].weight

\* Two different rows, the first without a weight and the second with one,
\* augmented in linear mode.
C7_Witness ==
  /\ ~isRatio
  /\ Len(rows) = 2 /\ Len(augmented) = 2
  /\ rows[1].study # rows[2].study
  /\ ~augmented[1].hasWeight /\ augmented[2].hasWeight

\* C8: the augmented rows depend on nothing but (rows, isRatio): in every
\* state, whatever uploads, removals and toggles led to it, they are what a
\* fresh run of the augmenter on the current rows and mode yields.
C8_Deterministic == augmented = Augment(rows, isRatio)

\* Computed in ratio mode, looked at after the axis was mirrored and with
\* rows whose weight depends on the mode.
C8_Witness ==
  /\ mirrorX /\ isRatio
  /\ \E i \in 1..Len(augmented) :
       /\ ~IsNullish(augmented[i].se)
       /\ Gt(augmented[i].se, Zero)
       /\ augmented[i].se # se(rows[i], FALSE)

----------------------------------------------------------------------------
(* Properties of the weights, the percentages and the table cells.         *)

\* The sequence without its i-th element.
Without(seq, i) ==
  [k \in 1..(Len(seq) - 1) |-> IF k < i THEN seq[k] ELSE seq[k + 1]]

\* C3 as stated: a row with hasWeight false adds nothing to totalWeight and
\* to the maximum weight of the marker sizing, and its weight cell, its
\* effect cell and its CI cell are all empty.
C3_AsStated ==
  \A i \in 1..Len(augmented) :
    ~augmented[i].hasWeight
      => /\ totalWeight(augmented) = totalWeight(Without(augmented, i))
         /\ maxW(augmented) = maxW(Without(augmented, i))
         /\ WeightCell(augmented, i) = <<>>
         /\ EffectCell(augmented, i) = <<>>
         /\ CICell(augmented, i) = <<>>

\* C3, amended: a row with hasWeight false adds nothing to totalWeight and
\* to the maximum weight, and its weight cell and the weight part of its
\* hover text are empty; its effect cell is empty exactly when it has no
\* effect and its CI cell exactly when it lacks one of the bounds.
C3_NoWeightRow ==
  \A i \in 1..Len(augmented) :
    ~augmented[i].hasWeight
      => /\ totalWeight(augmented) = totalWeight(Without(augmented, i))
         /\ maxW(augmented) = maxW(Without(augmented, i))
         /\ WeightCell(augmented, i) = <<>>
         /\ weightText(augmented, i) = <<>>
         /\ (EffectCell(augmented, i) = <<>>) <=> IsNullish(rows[i].effect)
         /\ (CICell(augmented, i) = <<>>)
              <=> (IsNullish(rows[i].ci_low) \/ IsNullish(rows[i].ci_high))

\* A row without a weight that still has its effect, next to a row that
\* carries the whole total.
C3_Witness ==
  \E i, j \in 1..Len(augmented) :
    /\ ~augmented[i].hasWeight
    /\ EffectCell(augmented, i) # <<>>
    /\ augmented[j].hasWeight
    /\ WeightCell(augmented, j) = FromInt(100)

\* The rows with hasWeight true.
WithWeight(aug) ==
  LET Has(a) == a.hasWeight IN SelectSeq(aug, Has)

\* The percentages shown in the table, 0 for an empty cell.
shownPct(aug) ==
  [i \in 1..Len(aug) |->
     IF WeightCell(aug, i) = <<>> THEN Zero ELSE WeightCell(aug, i)]

\* Some weight cell shows a percentage.
PctDisplayed == \E i \in 1..Len(augmented) : WeightCell(augmented, i) # <<>>

\* C4 in full: totalWeight is the sum of weightCalc over the rows with
\* hasWeight; where a percentage is displayed, the table cell and the hover
\* text of a row with hasWeight show weightCalc / totalWeight x 100 to one
\* decimal, and the displayed percentages add up to 100, up to the rounding
\* of each to one decimal (0.1 per row).
C4_Percentages ==
  /\ totalWeight(augmented) = SumFrom(weights(WithWeight(augmented)), 1, Zero)
  /\ \A i \in 1..Len(augmented) :
       (augmented[i].hasWeight /\ PctDisplayed)
         => LET p == ToFixed(Mul(Div(augmented[i].weightCalc,
                                     totalWeight(augmented)), FromInt(100)), 1)
            IN /\ WeightCell(augmented, i) = p
               /\ weightText(augmented, i) = p
  /\ PctDisplayed
       => Near(SumFrom(shownPct(augmented), 1, Zero), FromInt(100),
               Mul(Dec(1, -1), FromInt(Len(augmented))))

\* C4 on the datasets whose weights are all finite.
C4_WhenFinite ==
  (\A i \in 1..Len(augmented) : NumberIsFinite(augmented[i].weightCalc))
    => C4_Percentages

----------------------------------------------------------------------------
(* Properties of the tick synthesis.                                       *)

\* The tick values of the current layout.
Ticks == tickvals(augmented, isRatio, mirrorX)

\* C9: in ratio mode with the axis not mirrored and at least one row, the
\* tick values never decrease along the sequence and each lies in
\* [xMin, xMax], whichever generation path produced them.  The bounds are
\* widened by one part in a thousand, so that only a tick that is no
\* number in the range at all fails.
C9_TicksInRange ==
  (isRatio /\ ~mirrorX /\ Len(augmented) > 0)
    => LET t == Ticks
           slack == Mul(Dec(1, -3),
                        MathMax(xMax(augmented), Neg(xMin(augmented))))
       IN /\ \A k \in 1..Len(t) :
               /\ Ge(t[k], Sub(xMin(augmented), slack))
               /\ Le(t[k], Add(xMax(augmented), slack))
          /\ \A k \in 1..(Len(t) - 1) : Le(t[k], Add(t[k + 1], slack))

\* C9 on the datasets whose values are all positive.
C9_WhenPositive ==
  (\A k \in 1..Len(allX(augmented)) : Gt(allX(augmented)[k], Zero))
    => C9_TicksInRange

\* C10: in ratio mode the tick plan never has more than 12 ticks.
C10_AtMostTwelve ==
  (isRatio /\ Len(augmented) > 0) => Len(Ticks) <= 12

\* The part of C10 that holds: more than 12 full-mantissa candidates in
\* range make the plan the reduced set, every tick 1, 2 or 5 times a power
\* of ten.
C10_ReducedWhenCrowded ==
  LET t == Ticks
      full == candidatesOf(mantissasFull, decadeMin(augmented),
                           decadeMax(augmented), xMin(augmented),
                           xMax(augmented))
  IN (isRatio /\ Len(augmented) > 0 /\ Len(full) > 12)
       => \A k \in 1..Len(t) : t[k][1] \in {1, 2, 5}

\* The tick labels of the current layout.
TickText == ticktext(augmented, isRatio, mirrorX)

\* The set of the elements of a sequence.
Range(seq) == { seq[k] : k \in 1..Len(seq) }

\* C11: in ratio mode with rows, the tick values and tick labels of the
\* layout are the reversals of those the same rows have with mirrorX
\* switched: the lengths and the set of values are the same, position i
\* holds the value and the label of position n + 1 - i, and each label is
\* the label of the value at its position (so a second switch restores both
\* sequences).
C11_MirrorReverses ==
  (isRatio /\ Len(augmented) > 0)
    => LET here == xaxisTicks(augmented, isRatio, mirrorX)
           there == xaxisTicks(augmented, isRatio, ~mirrorX)
           n == Len(here.tickvals)
       IN /\ Len(there.tickvals) = n
          /\ Len(here.ticktext) = n /\ Len(there.ticktext) = n
          /\ Range(there.tickvals) = Range(here.tickvals)
          /\ \A i \in 1..n :
               /\ there.tickvals[i] = here.tickvals[n + 1 - i]
               /\ there.ticktext[i] = here.ticktext[n + 1 - i]
               /\ there.ticktext[i] = fmtVal(there.tickvals[i])
               /\ here.ticktext[i] = fmtVal(here.tickvals[i])

\* The axis mirrored in ratio mode over ticks that read differently from
\* the two ends.
C11_Witness ==
  /\ mirrorX /\ isRatio
  /\ Len(Ticks) >= 3
  /\ Ticks[1] # Ticks[Len(Ticks)]
  /\ TickText[1] # TickText[Len(TickText)]
  /\ Gt(Ticks[1], Ticks[Len(Ticks)])

\* The log-spaced fallback is the path that produced the ticks: neither
\* mantissa set has a value in [xMin, xMax].
FallbackTaken(aug) ==
  LET full == candidatesOf(mantissasFull, decadeMin(aug), decadeMax(aug),
                           xMin(aug), xMax(aug))
      reduced == candidatesOf(mantissasReduced, decadeMin(aug),
                              decadeMax(aug), xMin(aug), xMax(aug))
  IN Len(IF Len(full) > maxTicks THEN reduced ELSE full) = 0

\* C12: in ratio mode with rows, xMin and xMax of the tick synthesis are
\* strictly positive (the values are raised to the positive floor before
\* the minimum and maximum are taken), so that the fallback's log10(xMin),
\* log10(xMax) and xMax / xMin never see a non-positive number.
C12_PositiveRange ==
  (isRatio /\ Len(augmented) > 0)
    => /\ Gt(xMin(augmented), Zero)
       /\ Gt(xMax(augmented), Zero)
       /\ FallbackTaken(augmented)
            => /\ NumberIsFinite(MathLog10(xMin(augmented)))
               /\ NumberIsFinite(MathLog10(xMax(augmented)))
               /\ NumberIsFinite(Div(xMax(augmented), xMin(augmented)))

\* The effect and bound values present in the rows.
PresentValues ==
  { v \in UNION { {rows[i].effect, rows[i].ci_low, rows[i].ci_high} :
                    i \in 1..Len(rows) } : ~IsNullish(v) }

\* C13: in ratio mode with rows, xMin and xMax are the least and the
\* greatest of the values that are present; with no value present they are
\* both 1, and the tick plan is then the single tick 1 with the label "1",
\* all finite.
C13_DefaultRange ==
  (isRatio /\ Len(augmented) > 0)
    => /\ PresentValues # {}
            => /\ xMin(augmented) \in PresentValues
               /\ xMax(augmented) \in PresentValues
               /\ \A v \in PresentValues :
                    Le(xMin(augmented), v) /\ Le(v, xMax(augmented))
       /\ PresentValues = {}
            => /\ xMin(augmented) = FromInt(1)
               /\ xMax(augmented) = FromInt(1)
               /\ Ticks = <<FromInt(1)>>
               /\ TickText = <<"1">>

\* Ratio mode over two rows without any effect or bound, one a subheader
\* and one with a weight only.
C13_Witness ==
  /\ isRatio /\ Len(augmented) = 2
  /\ PresentValues = {}
  /\ IsNullish(rows[1].weight) /\ ~IsNullish(rows[2].weight)
  /\ Len(Ticks) = 1

\* Ratio mode over a row that lacks one bound next to a complete row.
C13_WitnessPartial ==
  /\ isRatio /\ Len(augmented) = 2
  /\ IsNullish(rows[1].ci_low) /\ ~IsNullish(rows[1].ci_high)
  /\ Complete(rows[2])
  /\ xMin(augmented) = rows[1].effect

----------------------------------------------------------------------------
(* Properties of the traces and of the layout's geometry.                  *)

\* The row has both bounds.
HasInterval(r) == ~IsNullish(r.ci_low) /\ ~IsNullish(r.ci_high)

RECURSIVE SegmentStart(_)
\* The number of entries the rows before row i put into the CI trace.
SegmentStart(i) ==
  IF i = 1 THEN 0
  ELSE SegmentStart(i - 1) + (IF HasInterval(rows[i - 1]) THEN 3 ELSE 1)

\* C14: with N > 0 rows, the row at 0-based index i has y = N - i as its
\* marker's y, as the y of both ends of its CI segment and as its y-axis
\* tick, labelled with its study (first row at N, last row at 1); the
\* y-axis range is [0, N + 1] and the plot height max(400, 40 N + 160).
C14_VerticalExtent ==
  LET N == Len(augmented)
  IN N > 0
       => /\ Len(markerY(augmented)) = N
          /\ Len(yaxisTickvals(augmented)) = N
          /\ \A k \in 1..N :
               LET y == FromInt(N - (k - 1))
                   at == SegmentStart(k)
               IN /\ markerY(augmented)[k] = y
                  /\ yaxisTickvals(augmented)[k] = y
                  /\ yaxisTicktext(augmented)[k] = rows[k].study
                  /\ HasInterval(rows[k])
                       => /\ yLine(augmented)[at + 1] = y
                          /\ yLine(augmented)[at + 2] = y
                          /\ xLine(augmented)[at + 1] = rows[k].ci_low
                          /\ xLine(augmented)[at + 2] = rows[k].ci_high
          /\ markerY(augmented)[1] = FromInt(N)
          /\ markerY(augmented)[N] = FromInt(1)
          /\ yaxisRange(augmented) = <<FromInt(0), FromInt(N + 1)>>
          /\ plotHeight(augmented) = FromInt(IntMax(400, 40 * N + 160))

\* Seven rows or more, so that the height grows past 400, with a CI
\* segment after a row that has none.
C14_Witness ==
  /\ Len(augmented) >= 7
  /\ Gt(plotHeight(augmented), FromInt(400))
  /\ ~HasInterval(rows[1]) /\ HasInterval(rows[2])
  /\ yLine(augmented)[2] = FromInt(Len(augmented) - 1)

\* C15: with N > 0 rows the layout has exactly one shape, a line from
\* (x, 0) to (x, N + 1) with x = 1 in ratio mode and x = 0 in linear mode,
\* whatever mirrorX is: the layout of the same rows with mirrorX switched
\* has the same line, the one with isRatio switched has it at the other x.
C15_ReferenceLine ==
  LET N == Len(augmented)
      x == IF isRatio THEN FromInt(1) ELSE FromInt(0)
      line == shapes(augmented, isRatio, mirrorX)
  IN N > 0
       => /\ Len(line) = 1
          /\ line[1].type = "line"
          /\ line[1].x0 = x /\ line[1].x1 = x
          /\ line[1].y0 = FromInt(0) /\ line[1].y1 = FromInt(N + 1)
          /\ shapes(augmented, isRatio, ~mirrorX) = line
          /\ shapes(Augment(rows, ~isRatio), ~isRatio, mirrorX)[1].x0
               = (IF isRatio THEN FromInt(0) ELSE FromInt(1))

\* Rows shown in linear mode with the axis mirrored.
C15_Witness ==
  /\ Len(augmented) > 1 /\ ~isRatio /\ mirrorX
  /\ shapes(augmented, isRatio, mirrorX)[1].x0 = Zero
  /\ shapes(augmented, isRatio, mirrorX)[1].y1 = FromInt(Len(rows) + 1)

----------------------------------------------------------------------------
(* Properties of the marker sizes.                                         *)

\* The size the formula gives to a row of weight w when the largest weight
\* is m and the slider stands at scale.
SizeOf(w, m, scale) ==
  Mul(Add(Mul(Div(w, m), Dec(28, 0)), Dec(6, 0)), scale)

\* Every row's size is the formula's value.
SizesFollowFormula ==
  LET w == weights(augmented)
      m == MathMax(MaxFrom(w, 1, NegInf), Dec(1, -6))
      size == markerSizes(augmented, diamondScale)
  IN /\ Len(size) = Len(augmented)
     /\ \A i \in 1..Len(augmented) :
          size[i] = SizeOf(w[i], m, diamondScale)

\* The sizes are ordered like the weights, and equal weights have equal
\* sizes.
SizesOrderedLikeWeights ==
  LET w == weights(augmented)
      size == markerSizes(augmented, diamondScale)
  IN \A i, j \in 1..Len(augmented) :
       /\ Le(w[i], w[j]) => Le(size[i], size[j])
       /\ (Le(w[i], w[j]) /\ Le(w[j], w[i]))
            => (Le(size[i], size[j]) /\ Le(size[j], size[i]))

\* C16: each row's marker size is ((weightCalc / maxWeight) * 28 + 6) *
\* diamondScale, maxWeight being the largest weightCalc floored at
\* 0.000001; hence the sizes are ordered like the weights and equal weights
\* give equal sizes.
C16_SizeFormula == SizesFollowFormula /\ SizesOrderedLikeWeights

\* C17: the sizes interpolate between the minimum and the maximum diameter:
\* when no weight is negative, every size lies between 6 * diamondScale,
\* the size of a zero-weight row, and 28 * diamondScale, the size of the
\* row with the largest weight.
C17_BetweenMinAndMax ==
  LET w == weights(augmented)
      size == markerSizes(augmented, diamondScale)
      smallest == Mul(Dec(6, 0), diamondScale)
      largest == Mul(Dec(28, 0), diamondScale)
  IN (\A i \in 1..Len(augmented) : Ge(w[i], Zero))
       => \A i \in 1..Len(augmented) :
            /\ Le(smallest, size[i])
            /\ Le(size[i], largest)
            /\ w[i] = Zero => size[i] = smallest
            /\ (w[i] # Zero /\ \A j \in 1..Len(augmented) : Le(w[j], w[i]))
                 => size[i] = largest

\* What the sizes do span when the weights are finite and not negative:
\* from 6 * diamondScale to (28 + 6) * diamondScale.
C17_Span ==
  LET w == weights(augmented)
      size == markerSizes(augmented, diamondScale)
      smallest == Mul(Dec(6, 0), diamondScale)
      largest == Mul(Dec(34, 0), diamondScale)
  IN (\A i \in 1..Len(augmented) :
        Ge(w[i], Zero) /\ NumberIsFinite(w[i]))
       => \A i \in 1..Len(augmented) :
            /\ Le(smallest, size[i])
            /\ Le(size[i], largest)
            /\ w[i] = Zero => size[i] = smallest
            /\ (w[i] # Zero /\ \A j \in 1..Len(augmented) : Le(w[j], w[i]))
                 => size[i] = largest

----------------------------------------------------------------------------
(* Properties of the CSV ingestion.                                        *)

\* The record has a study value: its study cell is not blank.
HasStudy(r) == r.study # Null /\ r.study # <<"">>

\* The study value is one that `!study` lets through.
HasTruthyStudy(r) == HasStudy(r) /\ r.study # Zero /\ r.study # Bool(FALSE)

\* The record has no numeric field.
NoNumbers(r) ==
  r.effect = Null /\ r.ci_low = Null /\ r.ci_high = Null /\ r.weight = Null

\* Row k is drawn as a subheader: a y position and a label of its own, no
\* marker, no CI segment, no weight.
IsSubheader(k) ==
  LET N == Len(augmented)
      at == SegmentStart(k)
  IN /\ yaxisTickvals(augmented)[k] = FromInt(N - (k - 1))
     /\ yaxisTicktext(augmented)[k] = rows[k].study
     /\ markerX(augmented)[k] = Null
     /\ xLine(augmented)[at + 1] = Null
     /\ yLine(augmented)[at + 1] = Null
     /\ SegmentStart(k + 1) = at + 1
     /\ augmented[k].weightCalc = Zero

\* After an upload the rows are the records satisfying Keep, in file
\* order, and those of them without numbers are subheaders.
Ingested(Keep(_)) ==
  Len(uploadedFiles) > 0
    => LET kept == SelectSeq(uploadedFiles[1], Keep)
       IN /\ Len(rows) = Len(kept)
          /\ \A k \in 1..Len(kept) :
               /\ IsText(kept[k].study) => rows[k].study = kept[k].study[1]
               /\ NoNumbers(kept[k]) => IsSubheader(k)

\* C18: ingestion keeps, in file order, every record that has a study
\* value, whatever the value and even when all its numeric cells are blank,
\* and drops every record without one; a kept record with no numeric field
\* is a subheader, with its own y position and label, no marker (null x),
\* no CI segment and weightCalc 0.
C18_KeepsEveryStudy == Ingested(HasStudy)

\* The same for the records whose study value is not 0 or false.
C18_KeepsTruthyStudy == Ingested(HasTruthyStudy)

\* The cell holds a number a field can take.
IsFiniteNumber(cell) == IsNumber(cell) /\ NumberIsFinite(cell)

\* The cells of a record and the fields of its row agree: a finite number
\* is taken over, and a cell satisfying Unusable leaves the field missing.
FieldsFrom(r, row, Unusable(_)) ==
  /\ \A f \in {"effect", "ci_low", "ci_high"} :
       /\ IsFiniteNumber(r[f]) => row[f] = r[f]
       /\ Unusable(r[f]) => row[f] = Null
  /\ IsFiniteNumber(r.weight) => row.weight = r.weight
  /\ Unusable(r.weight) => row.weight = Undefined

\* After an upload no record with a study is lost to a cell of its numeric
\* columns, a cell satisfying Unusable leaves its field missing, and a row
\* without a weight that misses the effect or a bound gets the augmenter's
\* missing-field result.
DegradesToMissing(Unusable(_)) ==
  Len(uploadedFiles) > 0
    => LET kept == SelectSeq(uploadedFiles[1], HasTruthyStudy)
       IN /\ Len(rows) = Len(kept)
          /\ Len(augmented) = Len(kept)
          /\ \A k \in 1..Len(kept) :
               /\ FieldsFrom(kept[k], rows[k], Unusable)
               /\ (/\ Unusable(kept[k].weight)
                   /\ \E f \in {"effect", "ci_low", "ci_high"} :
                        Unusable(kept[k][f]))
                    => /\ augmented[k].se = Null
                       /\ augmented[k].weightCalc = Zero
                       /\ ~augmented[k].hasWeight

\* The cell is blank, not numeric or not finite.
NotANumber(cell) == ~IsFiniteNumber(cell)

\* The same, but for the cells true and false.
NotANumberNorBoolean(cell) == ~IsFiniteNumber(cell) /\ ~IsBoolean(cell)

\* C19: a numeric cell (effect, ci_low, ci_high, weight) that is blank, not
\* numeric or not finite never drops the row: the field becomes missing
\* (null, undefined for the weight), the row is kept, and the augmenter
\* treats it by its missing-field rule.
C19_DegradesToMissing == DegradesToMissing(NotANumber)

\* The same for every cell that is not a boolean.
C19_ExceptBooleans == DegradesToMissing(NotANumberNorBoolean)

\* C20: when the parse of an uploaded file fails, the failure is logged
\* and nothing is committed: the rows, and with them the augmented rows
\* and the traces and layout computed from them and from the unchanged
\* options, are what they were before the failed upload.
C20_NothingCommitted ==
  [][logged' # logged
       => /\ logged' = logged + 1
          /\ rows' = rows
          /\ augmented' = augmented
          /\ markerX(augmented') = markerX(augmented)
          /\ xLine(augmented') = xLine(augmented)
          /\ UNCHANGED <<isRatio, mirrorX, diamondScale>>]_vars

\* A failure has been logged and the rows of an upload stand.
C20_Witness ==
  /\ logged > 0
  /\ Len(uploadedFiles) > 0
  /\ Len(rows) > 0
  /\ augmented = Augment(rows, isRatio)

----------------------------------------------------------------------------
(* Properties of the asynchronous parse.                                   *)

\* C21: stale in-flight work is superseded: whatever the interleaving of
\* drops, Remove clicks and parse completions, no rows are shown once the
\* file was removed, and once the parse of the selected file has ended the
\* rows are those of that file, so that the file name shown and the rows
\* shown belong to the same file.
C21_RowsOfSelectedFile ==
  /\ Len(uploadedFiles) = 0 => rows = <<>>
  /\ (Len(uploadedFiles) > 0 /\ uploadedFiles[1] \notin pending)
       => rows = parsed(uploadedFiles[1])

----------------------------------------------------------------------------
(* Properties of the header resolution.                                    *)

\* The cell that supplies column c of record r: the one under the first
\* listed spelling, in the order of the list, that is a header of the
\* record with a cell that is not blank; null when there is none.
Supplied(r, c) ==
  LET al == Aliases[c]
      filled == {i \in 1..Len(al) : al[i] \in DOMAIN r /\ r[al[i]] # Null}
  IN IF filled = {} THEN Null
     ELSE r[al[CHOOSE i \in filled : \A j \in filled : i <= j]]

----------------------------------------------------------------------------
(* Properties of the left margin.                                          *)

\* The length of the longest study label of the rows.
LongestLabel(rs) ==
  IF rs = <<>> THEN 0
  ELSE LET lens == {Len(rs[i].study) : i \in 1..Len(rs)}
       IN CHOOSE n \in lens : \A m \in lens : m <= n

\* C23: the left margin is min(600, max(100, 12 + 8 * L)) for the length
\* L of the longest study label, so it lies in [100, 600] whatever the
\* labels, and it does not decrease when the longest label gets longer:
\* the same rows without one of them never have a wider margin.
C23_LeftMargin ==
  Len(augmented) > 0
    => LET l == margin(augmented).l
           linear == 12 + 8 * LongestLabel(rows)
       IN /\ l = FromInt(IF linear < 100 THEN 100
                         ELSE IF linear > 600 THEN 600 ELSE linear)
          /\ Ge(l, FromInt(100)) /\ Le(l, FromInt(600))
          /\ \A i \in 1..Len(augmented) :
               Len(augmented) > 1
                 => Le(margin(Without(augmented, i)).l, l)

\* Two rows, one label in the linear part and one short: the margin is
\* neither bound, and without the longer label it falls back to 100.
C23_Witness ==
  /\ Len(augmented) = 2
  /\ Gt(margin(augmented).l, FromInt(100))
  /\ Lt(margin(augmented).l, FromInt(600))
  /\ \E i \in 1..2 : margin(Without(augmented, i)).l = FromInt(100)

----------------------------------------------------------------------------
(* Properties of the tick selection and of the tick labels.                *)

\* The numbers m * 10^d, m one of mants, lying in [lo, hi].  The decades
\* run over all those of the modelled files' positive values.
Grid(mants, lo, hi) ==
  { v \in { Dec(m, d) : m \in mants, d \in -13..4 } : Ge(v, lo) /\ Le(v, hi) }

\* The tick values of the state's rows in ratio mode, axis not mirrored,
\* follow the selection rule; Same(a, b) says when a fallback end point a
\* counts as equal to the bound b.
SelectionRule(Same(_, _)) ==
  LET t == tickvals(augmented, TRUE, FALSE)
      lo == xMin(augmented)
      hi == xMax(augmented)
      full == Grid(1..9, lo, hi)
      chosen == IF Cardinality(full) <= 12 THEN full
                ELSE Grid({1, 2, 5}, lo, hi)
      steps == MathMin(FromInt(6),
                       MathMax(FromInt(2), MathCeil(Div(hi, lo))))
  IN IF chosen # {}
       THEN /\ Range(t) = chosen
            /\ Len(t) = Cardinality(chosen)
     ELSE /\ FromInt(Len(t)) = Add(steps, FromInt(1))
          /\ Same(t[1], lo)
          /\ Same(t[Len(t)], hi)

\* Equal up to one part in a thousand.
SameRounded(a, b) == Near(a, b, Mul(MathMax(b, Neg(b)), Dec(1, -3)))

\* C24: in ratio mode the tick values are exactly the m * 10^d (m in
\* 1..9, d from floor(log10(xMin)) to ceil(log10(xMax))) in [xMin, xMax]
\* when these are at most 12, otherwise exactly those with m in {1, 2, 5};
\* only when the chosen set is empty the log-spaced fallback is used, with
\* steps + 1 values, steps = min(6, max(2, ceil(xMax / xMin))), the first
\* equal to xMin and the last equal to xMax (up to the rounding of log10
\* and pow).
C24_SelectionRule ==
  (isRatio /\ Len(augmented) > 0) => SelectionRule(SameRounded)

\* Every finite value of the rows is on or above the positive floor 1e-12.
OnPositiveFloor(aug) ==
  \A k \in 1..Len(allX(aug)) : Ge(allX(aug)[k], Dec(1, -12))

\* The same for the rows whose values are all on or above the positive
\* floor.
C24_WhenPositive ==
  (isRatio /\ Len(augmented) > 0 /\ OnPositiveFloor(augmented))
    => SelectionRule(SameRounded)

\* ---- The fallback ----

\* Where the fallback is taken, the range is positive and narrower than a
\* factor of 2, the step count is 2, there are 3 ticks, and the 3 ticks are
\* equal when the range is a single point.
FallbackIsNarrow ==
  LET t == tickvals(augmented, TRUE, FALSE)
      lo == xMin(augmented)
      hi == xMax(augmented)
      steps == MathMin(FromInt(6),
                       MathMax(FromInt(2), MathCeil(Div(hi, lo))))
  IN FallbackTaken(augmented) =>
       /\ Gt(lo, Zero)
       /\ Le(lo, hi)
       /\ Lt(Div(hi, lo), FromInt(2))
       /\ steps = FromInt(2)
       /\ Len(t) = 3
       /\ (lo = hi => (t[1] = t[2] /\ t[2] = t[3]))

\* C25: the log-spaced fallback is reached only when 0 < xMin <= xMax and
\* xMax / xMin < 2; its step count min(6, max(2, ceil(xMax / xMin))) is then
\* 2 and exactly 3 ticks are produced, which are equal when xMin = xMax.
C25_FallbackNarrowRange ==
  (isRatio /\ Len(augmented) > 0) => FallbackIsNarrow

\* The same for the rows whose values are all on or above the positive
\* floor.
C25_WhenPositive ==
  (isRatio /\ Len(augmented) > 0 /\ OnPositiveFloor(augmented))
    => FallbackIsNarrow

\* A single-point range and a narrow range that take the fallback.
C25_PointFallback ==
  /\ isRatio /\ Len(augmented) > 0 /\ OnPositiveFloor(augmented)
  /\ FallbackTaken(augmented)
  /\ xMin(augmented) = xMax(augmented)

C25_NarrowFallback ==
  /\ isRatio /\ Len(augmented) > 0 /\ OnPositiveFloor(augmented)
  /\ FallbackTaken(augmented)
  /\ Lt(xMin(augmented), xMax(augmented))

\* ---- Tick labels ----

\* The number of decimals of a tick below 1.
DecimalsBelowOne(v) == IF Ge(v, Dec(1, -1)) THEN 1 ELSE 2

\* The label of the tick v is the stated one: the integer for an integer
\* from 1 on, one decimal for another value from 1 on, and for a value
\* below 1 a point followed by 1 decimal (from 0.1 on) or 2 decimals.
StatedLabel(v, label) ==
  IF Ge(v, FromInt(1))
    THEN IF NumberIsInteger(v) THEN label = NumToString(v, 0)
         ELSE label = NumToString(ToFixed(v, 1), 1)
  ELSE IF Lt(v, FromInt(1))
    THEN LET prec == DecimalsBelowOne(v)
         IN /\ SubSeq(label, 1, 1) = "."
            /\ Len(label) = 1 + prec
            /\ "0" \o label = NumToString(ToFixed(v, prec), prec)
  ELSE TRUE

\* Rounding the tick v to its number of decimals makes it a whole number
\* from 1 on.
RoundsToWhole(v) ==
  LET f == IF Ge(v, FromInt(1)) THEN ToFixed(v, 1)
           ELSE ToFixed(v, DecimalsBelowOne(v))
  IN ~NumberIsInteger(v) /\ NumberIsInteger(f) /\ Ge(f, FromInt(1))

\* C26: every tick value the synthesis produces is labelled as stated: a
\* value >= 1 as an integer when it is one and otherwise with one decimal,
\* a value < 1 as a decimal without its leading zero (the label starts
\* with "."), with 1 decimal when the value is >= 0.1 and 2 otherwise.
C26_TickLabels ==
  (isRatio /\ Len(augmented) > 0) =>
    \A k \in 1..Len(Ticks) : StatedLabel(Ticks[k], TickText[k])

\* The same for the ticks that do not round to a whole number.
C26_UnlessRoundedToWhole ==
  (isRatio /\ Len(augmented) > 0) =>
    \A k \in 1..Len(Ticks) :
      ~RoundsToWhole(Ticks[k]) => StatedLabel(Ticks[k], TickText[k])

\* A tick below 1 labelled "1.0", and a tick above 1 labelled "1".
C26_BelowOneLabelledOne ==
  /\ isRatio /\ Len(augmented) > 0
  /\ \E k \in 1..Len(Ticks) :
       Lt(Ticks[k], FromInt(1)) /\ TickText[k] = "1.0"

C26_AboveOneLabelledOne ==
  /\ isRatio /\ Len(augmented) > 0
  /\ \E k \in 1..Len(Ticks) :
       Gt(Ticks[k], FromInt(1)) /\ TickText[k] = "1"

\* The tick 0.3 labelled ".3", and a tick labelled with 2 decimals.
C26_PointFirst ==
  /\ isRatio /\ Len(augmented) > 0
  /\ \E k \in 1..Len(Ticks) : Ticks[k] = Dec(3, -1) /\ TickText[k] = ".3"

C26_TwoDecimals ==
  /\ isRatio /\ Len(augmented) > 0
  /\ \E k \in 1..Len(Ticks) : Ticks[k] = Dec(3, -2) /\ TickText[k] = ".03"

\* ---- The CI trace ----

\* The number of rows with both bounds.
WithInterval == Cardinality({k \in 1..Len(rows) : HasInterval(rows[k])})

\* C27: the x and y arrays of the CI trace have the same length, 3 times
\* the rows with both bounds plus the rows without; a row with both bounds
\* puts (ci_low, ci_high, null) into x and (y, y, null) into y, y = N - i
\* for the 0-based index i, any other row a single null into each, so that
\* every row's entries end with a null and no two rows' segments join.
C27_CITrace ==
  LET N == Len(augmented)
      x == xLine(augmented)
      y == yLine(augmented)
  IN /\ Len(x) = Len(y)
     /\ Len(x) = 3 * WithInterval + (N - WithInterval)
     /\ \A k \in 1..N :
          LET at == SegmentStart(k)
              yk == FromInt(N - (k - 1))
          IN IF ~IsNullish(augmented[k].ci_low)
                /\ ~IsNullish(augmented[k].ci_high)
               THEN /\ SubSeq(x, at + 1, at + 3)
                         = <<augmented[k].ci_low, augmented[k].ci_high, Null>>
                    /\ SubSeq(y, at + 1, at + 3) = <<yk, yk, Null>>
             ELSE /\ x[at + 1] = Null
                  /\ y[at + 1] = Null
                  /\ (k < N => SegmentStart(k + 1) = at + 1)

\* Two rows, the first without both bounds and the second with them: the
\* trace has 4 entries.
C27_Witness ==
  /\ Len(augmented) = 2
  /\ ~HasInterval(rows[1]) /\ HasInterval(rows[2])
  /\ xLine(augmented) = <<Null, rows[2].ci_low, rows[2].ci_high, Null>>
  /\ yLine(augmented) = <<Null, FromInt(1), FromInt(1), Null>>

----------------------------------------------------------------------------
(* Properties of the option toggles.                                       *)

\* The augmented row without what the augmenter computes from the bounds.
Unweighted(a) == [a EXCEPT !.se = Null, !.weightCalc = Zero]

\* A step that switches isRatio keeps the rows, their order and their
\* hasWeight, and the weightCalc of the rows with an explicit weight or
\* with missing fields; a step that switches mirrorX or changes the x-axis
\* label keeps the augmented rows and the two traces.
OptionFrame ==
  /\ (isRatio' # isRatio /\ rows' = rows) =>
       /\ Len(augmented') = Len(augmented)
       /\ \A k \in 1..Len(augmented) :
            /\ Unweighted(augmented'[k]) = Unweighted(augmented[k])
            /\ augmented'[k].hasWeight = augmented[k].hasWeight
            /\ (~IsNullish(rows[k].weight) \/ ~Complete(rows[k]))
                 => augmented'[k] = augmented[k]
  /\ (mirrorX' # mirrorX \/ xLabel' # xLabel) =>
       /\ augmented' = augmented
       /\ plotData(augmented', diamondScale', picker'.parent)
            = plotData(augmented, diamondScale, picker.parent)

\* The plot of the rows has the tick override exactly in ratio mode.
TickOverride ==
  Len(augmented) > 0 =>
    /\ (tickvals(augmented, isRatio, mirrorX) # Undefined) <=> isRatio
    /\ (ticktext(augmented, isRatio, mirrorX) # Undefined) <=> isRatio

----------------------------------------------------------------------------
(* Properties of the colour picker.                                        *)

\* The text "rgba(r, g, b, a)" of whole channels from 0 to 255 and an alpha
\* from 0 to 1 of at most 3 decimals.
Normalized(c) ==
  /\ \A i \in 1..3 :
       NumberIsInteger(c[i]) /\ Ge(c[i], Zero) /\ Le(c[i], FromInt(255))
  /\ ToFixed(c[4], 3) = c[4] /\ Ge(c[4], Zero) /\ Le(c[4], FromInt(1))

\* The picker's own numbers.
HSLA(p) == <<p.hue, p.saturation, p.lightness, p.alpha>>

\* At rest (no frame requested, no colour left to hand back) the page's
\* colour is the picker's: a frame would call nothing and change nothing.
Quiescent ==
  (picker.parent = picker.value /\ ~picker.emitRaf) =>
    emit([picker EXCEPT !.emitRaf = TRUE], computed(picker)) = picker

\* The user moves a slider or the position of the selection area.
UserChange ==
  \/ \E v \in HueValues : SliderChange("hue", v)
  \/ \E v \in AlphaValues : SliderChange("alpha", v)
  \/ \E pos \in Positions : SelectionMove(pos[1], pos[2])

\* An onChange call carries a normalized colour that is numerically not
\* the one of the call before it (which the page has stored); no step but
\* the user's change alters the picker's numbers, the render that hands the
\* stored colour back included.
EmitFrame ==
  /\ picker'.parent # picker.parent =>
       /\ Normalized(picker'.parent)
       /\ ~sameNumeric(picker.parent, picker'.parent)
  /\ ~UserChange => HSLA(picker') = HSLA(picker)

\* C29: with a page that stores every emitted colour and passes it back,
\* one change of hue, saturation, lightness or alpha by the user causes at
\* most one onChange call, with a normalized rgba colour; the colour coming
\* back does not alter the picker's hue, saturation, lightness or alpha;
\* two consecutive calls never carry numerically the same colour; and the
\* picker then rests: nothing but a change by the user alters its numbers
\* or makes it call again.
C29_NoPingPong ==
  /\ [](picker.calls <= 1 /\ Quiescent)
  /\ [][EmitFrame]_vars

\* The colours of three changes have come back and the picker is at rest.
C29_AtRest ==
  /\ picker.calls = 1
  /\ picker.parent = picker.value /\ ~picker.emitRaf
  /\ picker.value = picker.lastEmittedNumeric
  /\ picker.hue = FromInt(120) /\ picker.alpha = FromInt(50)
  /\ picker.saturation = FromInt(50)

\* A change of the user is undone: the picker is back at the alpha the
\* page had, and has called onChange twice.
C29_ChangeUndone ==
  /\ picker.calls = 2
  /\ picker.alpha = FromInt(80)
  /\ picker.parent = diamondColor

\* With no pointer down the picker is not interacting.
InteractionFlag == picker.pointer = "none" => ~picker.isInteracting

\* A render that hands the picker another value while no pointer is down
\* applies it as the controlled-value effect of a picker that is not
\* interacting does.
AppliedOnceReleased ==
  (picker'.value # picker.value /\ picker.pointer = "none") =>
    HSLA(picker') =
      HSLA(SyncEffect([picker EXCEPT !.value = picker.parent,
                                     !.isInteracting = FALSE]))

\* C30: syncing from the controlled value is suspended only while the user
\* is interacting: after any pointer-down, pointer-move and pointer-up
\* events on the selection area, the hue slider or the alpha slider, once
\* the pointer is released isInteracting is false again and a later change
\* of the controlled value is applied to the picker's hue, saturation,
\* lightness and alpha.
C30_InteractionFlag == []InteractionFlag /\ [][AppliedOnceReleased]_vars

\* Releasing the pointer on the hue or the alpha slider ends the
\* interaction.
C30_SliderRelease ==
  [][(picker.pointer \in {"hue", "alpha"} /\ picker'.pointer = "none")
       => ~picker'.isInteracting]_vars

\* The pointer was moved over the selection area and released, the colour
\* of the move has come back, and the picker is still interacting.
C30_StuckAfterSelection ==
  /\ picker.pointer = "none" /\ ~picker.isDragging
  /\ picker.isInteracting
  /\ picker.saturation = FromInt(50)
  /\ picker.parent = picker.value /\ picker.value # diamondColor

====
